---------------------------- MODULE Spec2Model ----------------------------
(***************************************************************************)
(* A state-machine model of the core of sql_compare_tool:                  *)
(*   - SchemaComparator.compare / summarize / _diff  (core/comparator.py)  *)
(*   - DiffGenerator.side_by_side                 (core/diff_generator.py) *)
(*   - ScriptGenerator.__init__ / generate and the phase routines it      *)
(*     calls, _compare_columns and _ordered_programmability_items          *)
(*                                      (core/script_generator_backup.py)  *)
(*                                                                         *)
(* A line of a generated script is the literal text of the f-string that   *)
(* builds it together with the values put into it.                         *)
(*                                                                         *)
(* Python strings that the code sorts, lower-cases or searches are         *)
(* sequences of small integers standing for code points, so that sorted(), *)
(* str.lower() and the `in` substring test are computed, not assumed.      *)
(* Python dicts are functions; the empty dict is the empty function; None  *)
(* is the value NoneVal.                                                   *)
(***************************************************************************)
EXTENDS Integers, Sequences, FiniteSets, TLC

VARIABLES
    pc,         \* position of the modelled call sequence
    source,     \* SchemaComparator.source  (metadata snapshot)
    target,     \* SchemaComparator.target  (metadata snapshot)
    results,    \* value returned by compare()
    summary,    \* value returned by summarize(results)
    source_sql, \* DiffGenerator.__init__ argument
    target_sql, \* DiffGenerator.__init__ argument
    dg_source,  \* DiffGenerator.source  (list of lines)
    dg_target,  \* DiffGenerator.target  (list of lines)
    output,     \* value returned by side_by_side()
    names,          \* _ordered_programmability_items: list(node_by_name.keys())
    node_by_name,   \* key -> (obj_type, item)
    adjacency,      \* key -> set of keys its definition mentions
    indegree,       \* key -> number of keys whose definition mentions it
    queue,          \* Kahn's work list
    ordered_keys,   \* keys in output order
    ordered_items,  \* value returned by _ordered_programmability_items()
    source_table,   \* _compare_columns argument
    target_table,   \* _compare_columns argument
    added,          \* _compare_columns: columns present only in source
    removed,        \* _compare_columns: columns present only in target
    changed,        \* _compare_columns: (source, target) pairs that differ
    deploy_options_in,  \* ScriptGenerator.__init__ argument deploy_options
    deploy_options,     \* ScriptGenerator.deploy_options
    source_metadata,    \* ScriptGenerator.source_metadata
    lines,              \* generate(): the local list `lines`
    line_phase,         \* history: for each element of lines, the step that added it
    script              \* value returned by generate(), one element per joined item

cmpVars == <<source, target, results, summary>>

diffVars == <<source_sql, target_sql, dg_source, dg_target, output>>

ordVars ==
    <<names, node_by_name, adjacency, indegree, queue, ordered_keys, ordered_items>>

colVars == <<source_table, target_table, added, removed, changed>>

genVars ==
    <<deploy_options_in, deploy_options, source_metadata, lines, line_phase, script>>

vars == <<pc, cmpVars, diffVars, ordVars, colVars, genVars>>

---------------------------------------------------------------------------
(* Python values                                                           *)

NoneVal == [none |-> TRUE]

EmptyDict == [k \in {} |-> NoneVal]

\* bool(v) for the values compare() meets: None and dicts.
Truthy(v) == v # NoneVal /\ DOMAIN v # {}

\* d.get(k, default)
DictGet(d, k, default) == IF k \in DOMAIN d THEN d[k] ELSE default

Range(s) == {s[i] : i \in DOMAIN s}

\* Python's < on str: code point by code point, a proper prefix first.
RECURSIVE LexLess(_, _)
LexLess(s, t) ==
    IF s = <<>> THEN t # <<>>
    ELSE IF t = <<>> THEN FALSE
    ELSE IF Head(s) # Head(t) THEN Head(s) < Head(t)
    ELSE LexLess(Tail(s), Tail(t))

\* sorted(S) for a set of str
RECURSIVE SortedSeq(_)
SortedSeq(S) ==
    IF S = {} THEN <<>>
    ELSE LET m == CHOOSE x \in S : \A y \in S : x = y \/ LexLess(x, y)
         IN  <<m>> \o SortedSeq(S \ {m})

---------------------------------------------------------------------------
(* SchemaComparator                                                        *)

STATUS == {"IDENTICAL", "DIFFERENT", "MISSING_IN_TARGET", "MISSING_IN_SOURCE"}

ObjTypes ==
    << "tables", "views", "procedures", "functions", "triggers", "users",
       "roles", "schemas", "synonyms", "extended_properties",
       "check_constraints", "default_constraints", "unique_constraints",
       "user_defined_types", "sequences" >>

\* The fields of the object-detail records of the model; ListFields hold lists.
ListFields == {"columns", "indexes", "foreign_keys"}

\* DeepDiff(src, tgt, ignore_order=True): the set of reported changes.  With
\* ignore_order a list is compared by the set of its items (repetitions are
\* not reported either).
DeepDiffMutOrdered(src, tgt) ==
    IF src = NoneVal \/ tgt = NoneVal
    THEN IF src = tgt THEN {} ELSE {<<"type_changes", "root">>}
    ELSE {<<"dictionary_item_removed", k>> : k \in DOMAIN src \ DOMAIN tgt}
         \cup {<<"dictionary_item_added", k>> : k \in DOMAIN tgt \ DOMAIN src}
         \cup {<<"values_changed", k>> :
                 k \in {f \in DOMAIN src \cap DOMAIN tgt : src[f] # tgt[f]}}

DeepDiff(src, tgt) ==
    IF src = NoneVal \/ tgt = NoneVal
    THEN IF src = tgt THEN {} ELSE {<<"type_changes", "root">>}
    ELSE {<<"dictionary_item_removed", k>> : k \in DOMAIN src \ DOMAIN tgt}
         \cup {<<"dictionary_item_added", k>> : k \in DOMAIN tgt \ DOMAIN src}
         \cup {<<"iterable_item_removed", k>> :
                 k \in {f \in DOMAIN src \cap DOMAIN tgt \cap ListFields :
                          Range(src[f]) \ Range(tgt[f]) # {}}}
         \cup {<<"iterable_item_added", k>> :
                 k \in {f \in DOMAIN src \cap DOMAIN tgt \cap ListFields :
                          Range(tgt[f]) \ Range(src[f]) # {}}}
         \cup {<<"values_changed", k>> :
                 k \in {f \in (DOMAIN src \cap DOMAIN tgt) \ ListFields :
                          src[f] # tgt[f]}}

ChangeKinds ==
    << "type_changes", "dictionary_item_added", "dictionary_item_removed",
       "values_changed", "iterable_item_added", "iterable_item_removed" >>

\* diff.to_json(): the serialised changes, one entry per change; the empty
\* sequence is the empty string.
ToJson(d) ==
    LET FieldOrder ==
            << "columns", "definition", "indexes", "primary_key", "foreign_keys",
               "base_object_name", "column" >>
    IN
        LET paths == <<"root">> \o FieldOrder
            all == [i \in 1 .. (Len(ChangeKinds) * Len(paths)) |->
                       << ChangeKinds[((i - 1) \div Len(paths)) + 1],
                          paths[((i - 1) % Len(paths)) + 1] >>]
        IN  SelectSeq(all, LAMBDA e : e \in d)

\* SchemaComparator._diff
Diff(src, tgt) ==
    LET diff == DeepDiff(src, tgt)
    IN  IF diff # {} THEN ToJson(diff) ELSE <<>>

\* The body of compare()'s loop over sorted(all_keys): one item per key.
ClassifyItemMutPresence(key, src, tgt) ==
    IF src # NoneVal /\ tgt = NoneVal
    THEN [name |-> key, status |-> "MISSING_IN_TARGET", details |-> src]
    ELSE IF tgt # NoneVal /\ src = NoneVal
    THEN [name |-> key, status |-> "MISSING_IN_SOURCE", details |-> tgt]
    ELSE [name |-> key, status |-> "DIFFERENT",
          details |-> [source |-> src, target |-> tgt, diff |-> Diff(src, tgt)]]

ClassifyItemMutNoDiff(key, src, tgt) ==
    IF Truthy(src) /\ ~Truthy(tgt)
    THEN [name |-> key, status |-> "MISSING_IN_TARGET", details |-> src]
    ELSE IF Truthy(tgt) /\ ~Truthy(src)
    THEN [name |-> key, status |-> "MISSING_IN_SOURCE", details |-> tgt]
    ELSE LET diff == Diff(src, tgt)
         IN  IF diff # <<>>
             THEN [name |-> key, status |-> "IDENTICAL", details |-> src]
             ELSE [name |-> key, status |-> "DIFFERENT",
                   details |-> [source |-> src, target |-> tgt, diff |-> diff]]

ClassifyItem(key, src, tgt) ==
    IF Truthy(src) /\ ~Truthy(tgt)
    THEN [name |-> key, status |-> "MISSING_IN_TARGET", details |-> src]
    ELSE IF Truthy(tgt) /\ ~Truthy(src)
    THEN [name |-> key, status |-> "MISSING_IN_SOURCE", details |-> tgt]
    ELSE LET diff == Diff(src, tgt)
         IN  IF diff = <<>>
             THEN [name |-> key, status |-> "IDENTICAL", details |-> src]
             ELSE [name |-> key, status |-> "DIFFERENT",
                   details |-> [source |-> src, target |-> tgt, diff |-> diff]]

\* One iteration of compare()'s loop over the object types.
CompareCategoryMutSourceOnly(src_objs, tgt_objs) ==
    LET keys == SortedSeq(DOMAIN src_objs)
    IN  [i \in 1 .. Len(keys) |->
            ClassifyItem(keys[i], DictGet(src_objs, keys[i], NoneVal),
                                  DictGet(tgt_objs, keys[i], NoneVal))]

CompareCategory(src_objs, tgt_objs) ==
    LET keys == SortedSeq(DOMAIN src_objs \cup DOMAIN tgt_objs)
    IN  [i \in 1 .. Len(keys) |->
            ClassifyItem(keys[i], DictGet(src_objs, keys[i], NoneVal),
                                  DictGet(tgt_objs, keys[i], NoneVal))]

\* SchemaComparator.compare
CompareResult(src, tgt) ==
    [t \in Range(ObjTypes) |->
        CompareCategory(DictGet(src, t, EmptyDict), DictGet(tgt, t, EmptyDict))]

\* SchemaComparator.summarize
RECURSIVE CountItems(_, _)
CountItems(items, st) ==
    IF items = <<>> THEN 0
    ELSE (IF Head(items).status = st THEN 1 ELSE 0) + CountItems(Tail(items), st)

RECURSIVE SumOver(_, _, _)
SumOver(res, types, st) ==
    IF types = <<>> THEN 0
    ELSE CountItems(res[Head(types)], st) + SumOver(res, Tail(types), st)

SummarizeMutSkipMissing(res) ==
    [st \in STATUS |->
        IF st \in {"IDENTICAL", "DIFFERENT"} THEN SumOver(res, ObjTypes, st) ELSE 0]

Summarize(res) == [st \in STATUS |-> SumOver(res, ObjTypes, st)]

---------------------------------------------------------------------------
(* Inputs of the comparator                                                *)

\* The most objects one category of a snapshot holds.
MaxObjs == 2

\* Qualified names: "a", "ab", "b".
Names == {<<1>>, <<1, 2>>, <<2>>}

ColId == [name |-> "id", ordinal_position |-> 1, is_nullable |-> FALSE]

ColName == [name |-> "name", ordinal_position |-> 2, is_nullable |-> TRUE]

TableRecs ==
    {EmptyDict} \cup
    {[columns |-> l] :
        l \in {<<>>, <<ColId>>, <<ColId, ColName>>, <<ColName, ColId>>}}

ViewRec == [definition |-> "CREATE VIEW"]

Mappings(keys, recs, n) ==
    UNION {[ks -> recs] : ks \in {s \in SUBSET keys : Cardinality(s) <= n}}

TableMaps == Mappings(Names, TableRecs, MaxObjs)

ViewMaps == {[k \in {<<2>>} |-> ViewRec]}

\* A snapshot may omit any category.
Snapshots ==
    {[tables |-> t] : t \in TableMaps}
    \cup {[tables |-> t, views |-> v] : t \in TableMaps, v \in ViewMaps}
    \cup {[views |-> v] : v \in ViewMaps}
    \cup {EmptyDict}

\* The variables of the components a specification leaves unused.
DiffIdle ==
    /\ source_sql = <<>>
    /\ target_sql = <<>>
    /\ dg_source = <<>>
    /\ dg_target = <<>>
    /\ output = <<>>

OrdIdle ==
    /\ names = <<>>
    /\ node_by_name = EmptyDict
    /\ adjacency = EmptyDict
    /\ indegree = EmptyDict
    /\ queue = <<>>
    /\ ordered_keys = <<>>
    /\ ordered_items = <<>>

CompareIdle ==
    /\ source = EmptyDict
    /\ target = EmptyDict
    /\ results = EmptyDict
    /\ summary = EmptyDict

ColIdle ==
    /\ source_table = EmptyDict
    /\ target_table = EmptyDict
    /\ added = <<>>
    /\ removed = <<>>
    /\ changed = <<>>

GenIdle ==
    /\ deploy_options_in = NoneVal
    /\ deploy_options = EmptyDict
    /\ source_metadata = EmptyDict
    /\ lines = <<>>
    /\ line_phase = <<>>
    /\ script = <<>>

---------------------------------------------------------------------------
(* The comparator's call sequence: construct, compare(), summarize().      *)

InitCompare ==
    /\ pc = "constructed"
    /\ source \in Snapshots
    /\ target \in Snapshots
    /\ results = EmptyDict
    /\ summary = EmptyDict
    /\ DiffIdle
    /\ OrdIdle
    /\ ColIdle
    /\ GenIdle

Compare ==
    /\ pc = "constructed"
    /\ results' = CompareResult(source, target)
    /\ pc' = "compared"
    /\ UNCHANGED <<source, target, summary, diffVars, ordVars, colVars, genVars>>

SummarizeCall ==
    /\ pc = "compared"
    /\ summary' = Summarize(results)
    /\ pc' = "summarized"
    /\ UNCHANGED <<source, target, results, diffVars, ordVars, colVars, genVars>>

NextCompare == Compare \/ SummarizeCall

SpecCompare == InitCompare /\ [][NextCompare]_vars

---------------------------------------------------------------------------
(* Properties of the comparator                                            *)

Compared == pc \in {"compared", "summarized"}

SrcObjs(t) == DictGet(source, t, EmptyDict)

TgtObjs(t) == DictGet(target, t, EmptyDict)

TypeSet == Range(ObjTypes)

HasItem(t, item) == \E i \in DOMAIN results[t] : results[t][i] = item

\* C2 (as claimed): when the source and target key sets of a category are
\* disjoint, every source key is MISSING_IN_TARGET with the source record as
\* details and every target key is MISSING_IN_SOURCE with the target record
\* as details, whatever the records are.
C2_DisjointKeysClassified ==
    Compared =>
        \A t \in TypeSet :
            DOMAIN SrcObjs(t) \cap DOMAIN TgtObjs(t) = {} =>
                /\ \A k \in DOMAIN SrcObjs(t) :
                       HasItem(t, [name |-> k, status |-> "MISSING_IN_TARGET",
                                   details |-> SrcObjs(t)[k]])
                /\ \A k \in DOMAIN TgtObjs(t) :
                       HasItem(t, [name |-> k, status |-> "MISSING_IN_SOURCE",
                                   details |-> TgtObjs(t)[k]])

\* Two records that differ at most in the order of the items of their lists.
EqualUpToListOrder(a, b) ==
    /\ DOMAIN a = DOMAIN b
    /\ \A f \in DOMAIN a :
           IF f \in ListFields
           THEN /\ Len(a[f]) = Len(b[f])
                /\ \A x \in Range(a[f]) \cup Range(b[f]) :
                       Cardinality({i \in DOMAIN a[f] : a[f][i] = x})
                           = Cardinality({i \in DOMAIN b[f] : b[f][i] = x})
           ELSE a[f] = b[f]

\* C3 (as claimed): a key present on both sides is never reported missing;
\* it is IDENTICAL when the two records are equal and DIFFERENT when they
\* differ (records differing only in the order of a list may be either).
C3_CommonKeyNeverMissing ==
    Compared =>
        \A t \in TypeSet :
            \A i \in DOMAIN results[t] :
                LET k == results[t][i].name
                    st == results[t][i].status
                IN  k \in DOMAIN SrcObjs(t) \cap DOMAIN TgtObjs(t) =>
                        /\ st \in {"IDENTICAL", "DIFFERENT"}
                        /\ SrcObjs(t)[k] = TgtObjs(t)[k] => st = "IDENTICAL"
                        /\ ~EqualUpToListOrder(SrcObjs(t)[k], TgtObjs(t)[k])
                               => st = "DIFFERENT"

\* C4: for each of the 15 categories (absent ones counting as empty) the
\* item list enumerates the union of the source and target keys exactly once
\* each, in strictly increasing lexicographic order of the names.
C4_SortedUnionOfKeys ==
    Compared =>
        /\ DOMAIN results = TypeSet
        /\ Cardinality(TypeSet) = 15
        /\ \A t \in TypeSet :
               LET items == results[t]
                   keys == DOMAIN SrcObjs(t) \cup DOMAIN TgtObjs(t)
               IN  /\ {items[i].name : i \in DOMAIN items} = keys
                   /\ Len(items) = Cardinality(keys)
                   /\ \A i, j \in DOMAIN items :
                          i < j => LexLess(items[i].name, items[j].name)

C4_Witness ==
    /\ pc = "compared"
    /\ "views" \notin DOMAIN source
    /\ "views" \in DOMAIN target
    /\ Len(results["tables"]) = 3
    /\ DOMAIN SrcObjs("tables") = {<<1>>, <<2>>}
    /\ DOMAIN TgtObjs("tables") = {<<1, 2>>}
    /\ Len(results["views"]) = 1

\* C5: comparing a snapshot with itself gives IDENTICAL for every item.
C5_SelfCompareIdentical ==
    (Compared /\ source = target) =>
        \A t \in TypeSet :
            \A i \in DOMAIN results[t] : results[t][i].status = "IDENTICAL"

C5_Witness ==
    /\ pc = "compared"
    /\ source = target
    /\ Len(results["tables"]) = 2
    /\ Len(results["views"]) = 1
    /\ \E k \in DOMAIN SrcObjs("tables") : SrcObjs("tables")[k] = EmptyDict

\* Two lists holding the same records in a different order.
IsReordering(a, b) ==
    /\ Len(a) = Len(b)
    /\ a # b
    /\ \A x \in Range(a) \cup Range(b) :
           Cardinality({i \in DOMAIN a : a[i] = x})
               = Cardinality({i \in DOMAIN b : b[i] = x})

ReorderedTables ==
    {k \in DOMAIN SrcObjs("tables") \cap DOMAIN TgtObjs("tables") :
        /\ DOMAIN SrcObjs("tables")[k] = {"columns"}
        /\ DOMAIN TgtObjs("tables")[k] = {"columns"}
        /\ IsReordering(SrcObjs("tables")[k].columns, TgtObjs("tables")[k].columns)}

StatusOf(t, k) ==
    LET i == CHOOSE j \in DOMAIN results[t] : results[t][j].name = k
    IN  results[t][i].status

\* C6 (as claimed): two table records holding the same column records in a
\* different order (and nothing else that differs) are classified DIFFERENT.
C6_ColumnOrderSensitive ==
    Compared => \A k \in ReorderedTables : StatusOf("tables", k) = "DIFFERENT"

\* C6 (amended): the comparison ignores the order of the column list: two
\* table records that differ only in the order of their column records are
\* classified IDENTICAL.
C6_ColumnOrderIgnored ==
    Compared => \A k \in ReorderedTables : StatusOf("tables", k) = "IDENTICAL"

C6_Witness ==
    /\ pc = "compared"
    /\ ReorderedTables # {}

CarriesDiff(item) ==
    /\ "diff" \in DOMAIN item.details
    /\ item.details.diff # <<>>

\* C7: an item carries a non-empty diff exactly when its status is
\* DIFFERENT, and its details are then {source, target, diff} holding both
\* sides; any other item has one side's object record as details, no diff.
C7_DiffExactlyWhenDifferent ==
    Compared =>
        \A t \in TypeSet :
            \A i \in DOMAIN results[t] :
                LET item == results[t][i]
                    src == DictGet(SrcObjs(t), item.name, NoneVal)
                    tgt == DictGet(TgtObjs(t), item.name, NoneVal)
                IN  /\ CarriesDiff(item) <=> item.status = "DIFFERENT"
                    /\ item.status = "DIFFERENT" =>
                           /\ DOMAIN item.details = {"source", "target", "diff"}
                           /\ item.details.source = src
                           /\ item.details.target = tgt
                    /\ item.status = "IDENTICAL" => item.details = src
                    /\ item.status = "MISSING_IN_TARGET" => item.details = src
                    /\ item.status = "MISSING_IN_SOURCE" => item.details = tgt
                    /\ item.status # "DIFFERENT" => "diff" \notin DOMAIN item.details

C7_Witness ==
    /\ pc = "compared"
    /\ {results["tables"][i].status : i \in DOMAIN results["tables"]}
           = {"IDENTICAL", "DIFFERENT", "MISSING_IN_SOURCE"}
    /\ \E i \in DOMAIN results["tables"] : CarriesDiff(results["tables"][i])

ItemsWith(st) ==
    UNION {{<<t, i>> : i \in {j \in DOMAIN results[t] : results[t][j].status = st}} :
             t \in TypeSet}

AllItems == UNION {{<<t, i>> : i \in DOMAIN results[t]} : t \in TypeSet}

\* C8: summarize() returns a count for exactly the four statuses, each the
\* number of items with that status over all categories, so that the four
\* counts add up to the number of items.
C8_SummaryCounts ==
    pc = "summarized" =>
        /\ DOMAIN summary = STATUS
        /\ \A st \in STATUS : summary[st] = Cardinality(ItemsWith(st))
        /\ summary["IDENTICAL"] + summary["DIFFERENT"]
             + summary["MISSING_IN_TARGET"] + summary["MISSING_IN_SOURCE"]
               = Cardinality(AllItems)

C8_Witness ==
    /\ pc = "summarized"
    /\ summary["MISSING_IN_TARGET"] = 2
    /\ summary["MISSING_IN_SOURCE"] = 1
    /\ summary["DIFFERENT"] = 1
    /\ Len(results["views"]) = 1

---------------------------------------------------------------------------
(* DiffGenerator                                                           *)

\* Code points of the modelled texts: line feed and the letter a.
NL == 10

LetterA == 97

\* The longest text given to DiffGenerator.
MaxTextLen == 6

Max(x, y) == IF x >= y THEN x ELSE y

\* None passed for a text (no code point is negative).
NoneText == <<-1>>

\* (text or "")
OrEmpty(text) == IF text = NoneText THEN <<>> ELSE text

\* str.splitlines(): the lines without their line ends; a final line end
\* opens no further line.
RECURSIVE SplitLinesMutSplit(_)
SplitLinesMutSplit(text) ==
    LET nls == {i \in DOMAIN text : text[i] = NL}
    IN  IF nls = {} THEN <<text>>
        ELSE LET i == CHOOSE n \in nls : \A m \in nls : n <= m
             IN  <<SubSeq(text, 1, i - 1)>>
                     \o SplitLinesMutSplit(SubSeq(text, i + 1, Len(text)))

RECURSIVE SplitLines(_)
SplitLines(text) ==
    LET nls == {i \in DOMAIN text : text[i] = NL}
    IN  IF text = <<>> THEN <<>>
        ELSE IF nls = {} THEN <<text>>
        ELSE LET i == CHOOSE n \in nls : \A m \in nls : n <= m
             IN  <<SubSeq(text, 1, i - 1)>>
                     \o SplitLines(SubSeq(text, i + 1, Len(text)))

\* difflib.SequenceMatcher.find_longest_match(alo, ahi, blo, bhi) with no junk
\* (autojunk only acts on sequences of 200 or more elements): the longest
\* block a[i:i+k] = b[j:j+k] in the two ranges, the one starting earliest
\* in a and, among those, earliest in b.  Indices are Python's (from 0).
FindLongestMatch(a, b, alo, ahi, blo, bhi) ==
    LET cands == {m \in (alo .. ahi - 1) \X (blo .. bhi - 1) \X (1 .. (ahi - alo)) :
                     /\ m[1] + m[3] <= ahi
                     /\ m[2] + m[3] <= bhi
                     /\ \A d \in 0 .. m[3] - 1 : a[m[1] + d + 1] = b[m[2] + d + 1]}
        Better(m, n) ==
            \/ m[3] > n[3]
            \/ m[3] = n[3] /\ m[1] < n[1]
            \/ m[3] = n[3] /\ m[1] = n[1] /\ m[2] < n[2]
    IN  IF cands = {} THEN <<alo, blo, 0>>
        ELSE CHOOSE m \in cands : \A n \in cands : m = n \/ Better(m, n)

\* The recursion of get_matching_blocks: the longest match, then the
\* ranges to its left and to its right, in increasing order.
RECURSIVE MatchesIn(_, _, _, _, _, _)
MatchesIn(a, b, alo, ahi, blo, bhi) ==
    LET m == FindLongestMatch(a, b, alo, ahi, blo, bhi)
        i == m[1]
        j == m[2]
        k == m[3]
    IN  IF k = 0 THEN <<>>
        ELSE (IF alo < i /\ blo < j THEN MatchesIn(a, b, alo, i, blo, j) ELSE <<>>)
             \o <<m>>
             \o (IF i + k < ahi /\ j + k < bhi
                 THEN MatchesIn(a, b, i + k, ahi, j + k, bhi) ELSE <<>>)

\* get_matching_blocks' merge of adjacent blocks; cur is (i1, j1, k1).
RECURSIVE Collapse(_, _)
Collapse(cur, blocks) ==
    IF blocks = <<>> THEN (IF cur[3] # 0 THEN <<cur>> ELSE <<>>)
    ELSE LET nxt == Head(blocks)
         IN  IF cur[1] + cur[3] = nxt[1] /\ cur[2] + cur[3] = nxt[2]
             THEN Collapse(<<cur[1], cur[2], cur[3] + nxt[3]>>, Tail(blocks))
             ELSE (IF cur[3] # 0 THEN <<cur>> ELSE <<>>)
                      \o Collapse(nxt, Tail(blocks))

\* SequenceMatcher.get_matching_blocks(), with its closing (la, lb, 0).
GetMatchingBlocks(a, b) ==
    Collapse(<<0, 0, 0>>, MatchesIn(a, b, 0, Len(a), 0, Len(b)))
        \o <<<<Len(a), Len(b), 0>>>>

\* SequenceMatcher.get_opcodes(): i, j are the ends of the previous block.
RECURSIVE OpcodesFrom(_, _, _)
OpcodesFrom(blocks, i, j) ==
    IF blocks = <<>> THEN <<>>
    ELSE LET ai == Head(blocks)[1]
             bj == Head(blocks)[2]
             size == Head(blocks)[3]
             tag == IF i < ai /\ j < bj THEN "replace"
                    ELSE IF i < ai THEN "delete"
                    ELSE IF j < bj THEN "insert"
                    ELSE ""
         IN  (IF tag # ""
              THEN <<[tag |-> tag, a0 |-> i, a1 |-> ai, b0 |-> j, b1 |-> bj]>>
              ELSE <<>>)
             \o (IF size # 0
                 THEN <<[tag |-> "equal", a0 |-> ai, a1 |-> ai + size,
                         b0 |-> bj, b1 |-> bj + size]>>
                 ELSE <<>>)
             \o OpcodesFrom(Tail(blocks), ai + size, bj + size)

GetOpcodes(a, b) == OpcodesFrom(GetMatchingBlocks(a, b), 0, 0)

\* The rows side_by_side() appends for one opcode.
OpcodeRowsMutSwapTags(src, tgt, op) ==
    IF op.tag = "equal"
    THEN [n \in 1 .. (op.a1 - op.a0) |->
             <<src[op.a0 + n], tgt[op.b0 + n], "same">>]
    ELSE IF op.tag = "insert"
    THEN [n \in 1 .. (op.b1 - op.b0) |-> << <<>>, tgt[op.b0 + n], "add">>]
    ELSE IF op.tag = "delete"
    THEN [n \in 1 .. (op.a1 - op.a0) |-> <<src[op.a0 + n], <<>>, "del">>]
    ELSE [n \in 1 .. Max(op.a1 - op.a0, op.b1 - op.b0) |->
             << IF op.a0 + n - 1 < op.a1 THEN src[op.a0 + n] ELSE <<>>,
                IF op.b0 + n - 1 < op.b1 THEN tgt[op.b0 + n] ELSE <<>>,
                "chg" >>]

\* side_by_side() leaving out the text of the lines only the source has.
OpcodeRowsMutDeleteBlank(src, tgt, op) ==
    IF op.tag = "equal"
    THEN [n \in 1 .. (op.a1 - op.a0) |->
             <<src[op.a0 + n], tgt[op.b0 + n], "same">>]
    ELSE IF op.tag = "insert"
    THEN [n \in 1 .. (op.b1 - op.b0) |-> << <<>>, tgt[op.b0 + n], "del">>]
    ELSE IF op.tag = "delete"
    THEN [n \in 1 .. (op.a1 - op.a0) |-> << <<>>, <<>>, "add">>]
    ELSE [n \in 1 .. Max(op.a1 - op.a0, op.b1 - op.b0) |->
             << IF op.a0 + n - 1 < op.a1 THEN src[op.a0 + n] ELSE <<>>,
                IF op.b0 + n - 1 < op.b1 THEN tgt[op.b0 + n] ELSE <<>>,
                "chg" >>]

\* side_by_side() pairing a replace span with zip(): the longer side's
\* surplus lines are dropped instead of padded.
OpcodeRowsMutZip(src, tgt, op) ==
    LET Min(x, y) == IF x <= y THEN x ELSE y
    IN
        IF op.tag = "equal"
        THEN [n \in 1 .. (op.a1 - op.a0) |->
                 <<src[op.a0 + n], tgt[op.b0 + n], "same">>]
        ELSE IF op.tag = "insert"
        THEN [n \in 1 .. (op.b1 - op.b0) |-> << <<>>, tgt[op.b0 + n], "del">>]
        ELSE IF op.tag = "delete"
        THEN [n \in 1 .. (op.a1 - op.a0) |-> <<src[op.a0 + n], <<>>, "add">>]
        ELSE [n \in 1 .. Min(op.a1 - op.a0, op.b1 - op.b0) |->
                 <<src[op.a0 + n], tgt[op.b0 + n], "chg">>]

OpcodeRows(src, tgt, op) ==
    IF op.tag = "equal"
    THEN [n \in 1 .. (op.a1 - op.a0) |->
             <<src[op.a0 + n], tgt[op.b0 + n], "same">>]
    ELSE IF op.tag = "insert"
    THEN [n \in 1 .. (op.b1 - op.b0) |-> << <<>>, tgt[op.b0 + n], "del">>]
    ELSE IF op.tag = "delete"
    THEN [n \in 1 .. (op.a1 - op.a0) |-> <<src[op.a0 + n], <<>>, "add">>]
    ELSE [n \in 1 .. Max(op.a1 - op.a0, op.b1 - op.b0) |->
             << IF op.a0 + n - 1 < op.a1 THEN src[op.a0 + n] ELSE <<>>,
                IF op.b0 + n - 1 < op.b1 THEN tgt[op.b0 + n] ELSE <<>>,
                "chg" >>]

RECURSIVE RowsOf(_, _, _)
RowsOf(src, tgt, ops) ==
    IF ops = <<>> THEN <<>>
    ELSE OpcodeRows(src, tgt, Head(ops)) \o RowsOf(src, tgt, Tail(ops))

\* DiffGenerator.side_by_side
SideBySideRows(src, tgt) == RowsOf(src, tgt, GetOpcodes(src, tgt))

---------------------------------------------------------------------------
(* The diff engine's call sequence: construct, side_by_side().             *)

Texts ==
    LET TextsOfLen(n) == [1 .. n -> {NL, LetterA}]
    IN
        UNION {TextsOfLen(n) : n \in 0 .. MaxTextLen} \cup {NoneText}

InitDiff ==
    /\ pc = "start"
    /\ source_sql \in Texts
    /\ target_sql \in Texts
    /\ dg_source = <<>>
    /\ dg_target = <<>>
    /\ output = <<>>
    /\ CompareIdle
    /\ OrdIdle
    /\ ColIdle
    /\ GenIdle

\* DiffGenerator.__init__
DiffConstruct ==
    /\ pc = "start"
    /\ dg_source' = SplitLines(OrEmpty(source_sql))
    /\ dg_target' = SplitLines(OrEmpty(target_sql))
    /\ pc' = "split"
    /\ UNCHANGED <<source_sql, target_sql, output, cmpVars, ordVars, colVars, genVars>>

\* DiffGenerator.side_by_side
SideBySide ==
    /\ pc = "split"
    /\ output' = SideBySideRows(dg_source, dg_target)
    /\ pc' = "diffed"
    /\ UNCHANGED <<source_sql, target_sql, dg_source, dg_target, cmpVars, ordVars, colVars, genVars>>

NextDiff == DiffConstruct \/ SideBySide

SpecDiff == InitDiff /\ [][NextDiff]_vars

---------------------------------------------------------------------------
(* Properties of the diff engine                                           *)

Tags(rows) == [i \in DOMAIN rows |-> rows[i][3]]

RowsTagged(tag) == {i \in DOMAIN output : output[i][3] = tag}

SameRows(ls) == [i \in DOMAIN ls |-> <<ls[i], ls[i], "same">>]

\* The rows that precede those of opcode number n.
RECURSIVE RowOffset(_, _)
RowOffset(ops, n) ==
    IF n <= 1 THEN 0
    ELSE RowOffset(ops, n - 1)
           + Max(ops[n - 1].a1 - ops[n - 1].a0, ops[n - 1].b1 - ops[n - 1].b0)

RECURSIVE SpanTotal(_, _)
SpanTotal(ops, tag) ==
    IF ops = <<>> THEN 0
    ELSE (IF Head(ops).tag = tag
          THEN Max(Head(ops).a1 - Head(ops).a0, Head(ops).b1 - Head(ops).b0)
          ELSE 0) + SpanTotal(Tail(ops), tag)

\* C9: every line of an insert span (only in the target) gives one row
\* ("", line, "del") and every line of a delete span (only in the source)
\* one row (line, "", "add"), and no other row carries these tags; appending
\* k lines to the target of an equal text gives the same rows followed by
\* exactly k del rows, appending them to the source exactly k add rows.
C9_OneSidedLinesBlank ==
    pc = "diffed" =>
        LET ops == GetOpcodes(dg_source, dg_target)
        IN  /\ \A n \in DOMAIN ops :
                   /\ ops[n].tag = "insert" =>
                          \A j \in ops[n].b0 .. ops[n].b1 - 1 :
                              output[RowOffset(ops, n) + (j - ops[n].b0) + 1]
                                  = << <<>>, dg_target[j + 1], "del" >>
                   /\ ops[n].tag = "delete" =>
                          \A i \in ops[n].a0 .. ops[n].a1 - 1 :
                              output[RowOffset(ops, n) + (i - ops[n].a0) + 1]
                                  = << dg_source[i + 1], <<>>, "add" >>
            /\ Cardinality(RowsTagged("del")) = SpanTotal(ops, "insert")
            /\ Cardinality(RowsTagged("add")) = SpanTotal(ops, "delete")
            /\ LET k == Len(dg_target) - Len(dg_source)
               IN  (k >= 1 /\ dg_source = SubSeq(dg_target, 1, Len(dg_source))) =>
                       output = SameRows(dg_source)
                                  \o [i \in 1 .. k |->
                                        << <<>>, dg_target[Len(dg_source) + i], "del" >>]
            /\ LET k == Len(dg_source) - Len(dg_target)
               IN  (k >= 1 /\ dg_target = SubSeq(dg_source, 1, Len(dg_target))) =>
                       output = SameRows(dg_target)
                                  \o [i \in 1 .. k |->
                                        << dg_source[Len(dg_target) + i], <<>>, "add" >>]

C9_Witness ==
    /\ pc = "diffed"
    /\ Len(dg_source) = 2
    /\ Len(dg_target) = 4
    /\ dg_source = SubSeq(dg_target, 1, 2)
    /\ Cardinality(RowsTagged("del")) = 2
    /\ dg_target[3] # <<>>

\* The number of lines of a text: one per line end, and one more for a
\* last line that has no line end.
LineCount(text) ==
    Cardinality({i \in DOMAIN text : text[i] = NL})
        + (IF text # <<>> /\ text[Len(text)] # NL THEN 1 ELSE 0)

\* C10: side_by_side(X, X) has as many rows as X has lines, every row
\* tagged same with left equal to right.
C10_SelfDiffAllSame ==
    (pc = "diffed" /\ source_sql = target_sql) =>
        /\ Len(output) = LineCount(OrEmpty(source_sql))
        /\ \A i \in DOMAIN output :
               output[i][3] = "same" /\ output[i][1] = output[i][2]

C10_Witness ==
    /\ pc = "diffed"
    /\ source_sql = target_sql
    /\ Len(output) = 3
    /\ output[1] # output[2]
    /\ output[1] = output[3]

\* The rows of every replace span: max(source block, target block) rows, all
\* tagged chg, lines paired by position, the shorter side padded with "".
ReplaceSpansPadded ==
    LET ops == GetOpcodes(dg_source, dg_target)
    IN  /\ Len(output) = RowOffset(ops, Len(ops) + 1)
        /\ Cardinality(RowsTagged("chg")) = SpanTotal(ops, "replace")
        /\ \A n \in DOMAIN ops :
               ops[n].tag = "replace" =>
                   LET la == ops[n].a1 - ops[n].a0
                       lb == ops[n].b1 - ops[n].b0
                   IN  \A k \in 1 .. Max(la, lb) :
                           output[RowOffset(ops, n) + k]
                               = << IF k <= la THEN dg_source[ops[n].a0 + k] ELSE <<>>,
                                    IF k <= lb THEN dg_target[ops[n].b0 + k] ELSE <<>>,
                                    "chg" >>

\* The two line sequences have the same length and differ in exactly one line.
DifferInOneLine ==
    /\ Len(dg_source) = Len(dg_target)
    /\ Cardinality({i \in DOMAIN dg_source : dg_source[i] # dg_target[i]}) = 1

\* C11 (as claimed): every replace span gives max(source block, target
\* block) chg rows, paired by position and padded with ""; and a text pair
\* differing in one line has at least one chg row.
C11_OneLineChangeGivesChg ==
    pc = "diffed" =>
        /\ ReplaceSpansPadded
        /\ DifferInOneLine => RowsTagged("chg") # {}

\* C11 (amended): every replace span gives max(source block, target block)
\* chg rows, paired by position and padded with ""; a text pair differing in
\* one line has at least one row that is not tagged same (a chg row when the
\* alignment has a replace span, otherwise an add row and a del row).
C11_ReplaceSpansPadded ==
    pc = "diffed" =>
        /\ ReplaceSpansPadded
        /\ DifferInOneLine =>
               /\ \E i \in DOMAIN output : output[i][3] # "same"
               /\ RowsTagged("chg") = {} =>
                      RowsTagged("add") # {} /\ RowsTagged("del") # {}

\* A replace span of one source line against two target lines: the second
\* row is padded on the left.
C11_Witness ==
    /\ pc = "diffed"
    /\ dg_source = << <<LetterA>> >>
    /\ dg_target = << <<LetterA, LetterA>>, <<>> >>
    /\ output = << << <<LetterA>>, <<LetterA, LetterA>>, "chg" >>,
                   << <<>>, <<>>, "chg" >> >>

---------------------------------------------------------------------------
(* ScriptGenerator._ordered_programmability_items                          *)

\* str.lower() on the code points of the model (A..Z -> a..z).
Lower(s) == [i \in DOMAIN s |-> IF s[i] >= 65 /\ s[i] <= 90 THEN s[i] + 32 ELSE s[i]]

\* needle in hay
Contains(hay, needle) ==
    \E i \in 0 .. Len(hay) - Len(needle) :
        SubSeq(hay, i + 1, i + Len(needle)) = needle

\* (v or {})
OrDict(v) == IF Truthy(v) THEN v ELSE EmptyDict

ProgTypes == <<"functions", "views", "procedures", "triggers">>

RECURSIVE Flatten(_, _)
\* The (obj_type, item) pairs in the order the two nested loops meet them.
Flatten(res, types) ==
    IF types = <<>> THEN <<>>
    ELSE [i \in DOMAIN DictGet(res, Head(types), <<>>) |->
             <<Head(types), DictGet(res, Head(types), <<>>)[i]>>]
         \o Flatten(res, Tail(types))

\* The pairs that pass the two `continue` tests (status, empty name).
Candidates(res) ==
    SelectSeq(Flatten(res, ProgTypes),
              LAMBDA e : /\ e[2].status \in {"MISSING_IN_TARGET", "DIFFERENT"}
                         /\ e[2].name # <<>>)

\* The keys of node_by_name in insertion order: a key written again keeps
\* its first position.
RECURSIVE KeysInOrder(_, _)
KeysInOrder(cands, seen) ==
    IF cands = <<>> THEN <<>>
    ELSE LET key == Lower(Head(cands)[2].name)
         IN  IF key \in seen THEN KeysInOrder(Tail(cands), seen)
             ELSE <<key>> \o KeysInOrder(Tail(cands), seen \cup {key})

\* node_by_name[key] = (obj_type, item): the last pair written for the key.
NodeByName(cands) ==
    [key \in {Lower(cands[i][2].name) : i \in DOMAIN cands} |->
        LET last == CHOOSE i \in DOMAIN cands :
                        /\ Lower(cands[i][2].name) = key
                        /\ \A j \in DOMAIN cands :
                               Lower(cands[j][2].name) = key => j <= i
        IN  cands[last]]

\* def_by_name[key]: the lower-cased definition read through details.source.
DefinitionOf(item) ==
    LET details == OrDict(DictGet(item, "details", EmptyDict))
        src == OrDict(DictGet(details, "source", EmptyDict))
    IN  Lower(DictGet(src, "definition", <<>>))

\* adjacency[a]: the other keys that the definition of a contains.
AdjacencyOfMutReversed(nodes) ==
    [a \in DOMAIN nodes |->
        {b \in DOMAIN nodes :
            /\ a # b
            /\ DefinitionOf(nodes[b][2]) # <<>>
            /\ Contains(DefinitionOf(nodes[b][2]), a)}]

AdjacencyOf(nodes) ==
    [a \in DOMAIN nodes |->
        {b \in DOMAIN nodes :
            /\ a # b
            /\ DefinitionOf(nodes[a][2]) # <<>>
            /\ Contains(DefinitionOf(nodes[a][2]), b)}]

\* indegree[b]: one per key a with b in adjacency[a].
IndegreeOf(adj) ==
    [b \in DOMAIN adj |-> Cardinality({a \in DOMAIN adj : b \in adj[a]})]

\* The inner loop of the sort over the keys `deps` in the order given:
\* the pair (indegree, queue) it leaves.
RECURSIVE Relax(_, _, _)
Relax(indeg, q, deps) ==
    IF deps = <<>> THEN <<indeg, q>>
    ELSE LET dep == Head(deps)
             ind2 == [indeg EXCEPT ![dep] = @ - 1]
         IN  Relax(ind2, IF ind2[dep] = 0 THEN Append(q, dep) ELSE q, Tail(deps))

\* The orders in which a Python set may be iterated.
Orderings(S) ==
    {f \in [1 .. Cardinality(S) -> S] : \A i, j \in DOMAIN f : i # j => f[i] # f[j]}

RECURSIVE Reverse(_)
Reverse(q) == IF q = <<>> THEN <<>> ELSE Append(Reverse(Tail(q)), Head(q))

RemainingMutReversed(ns, done) == Reverse(SelectSeq(ns, LAMBDA n : n \notin Range(done)))

\* The fallback: the keys not yet ordered, in the order of `names`.
Remaining(ns, done) == SelectSeq(ns, LAMBDA n : n \notin Range(done))

\* Code points: "a", "b", "c", "B", "x", ".".
ChA == 97

ChB == 98

ChC == 99

ChUpperB == 66

ChX == 120

Dot == 46

---------------------------------------------------------------------------
(* ScriptGenerator: column helpers                                         *)
(*                                                                         *)
(* The scalar fields of a column record hold Python values of several      *)
(* types; they are tagged records here, so that None, bools, ints and      *)
(* strs can be told apart and compared as Python compares them.            *)

PyNone == [t |-> "NoneType"]

PyBool(b) == [t |-> "bool", v |-> b]

PyInt(n) == [t |-> "int", v |-> n]

PyStr(s) == [t |-> "str", v |-> s]

\* bool(v)
PyTruthy(v) ==
    IF v.t = "NoneType" THEN FALSE
    ELSE IF v.t = "bool" THEN v.v
    ELSE IF v.t = "int" THEN v.v # 0
    ELSE v.v # <<>>

\* a == b on Python scalars: True == 1 and False == 0.
PyEq(a, b) ==
    IF a.t \in {"bool", "int"} /\ b.t \in {"bool", "int"}
    THEN (IF a.t = "bool" THEN (IF a.v THEN 1 ELSE 0) ELSE a.v)
             = (IF b.t = "bool" THEN (IF b.v THEN 1 ELSE 0) ELSE b.v)
    ELSE a = b

\* str.upper() on the code points of the model (a..z -> A..Z).
Upper(s) == [i \in DOMAIN s |-> IF s[i] >= 97 /\ s[i] <= 122 THEN s[i] - 32 ELSE s[i]]

\* str.strip() for blanks.
RECURSIVE Strip(_)
Strip(s) ==
    IF s = <<>> THEN s
    ELSE IF Head(s) = 32 THEN Strip(Tail(s))
    ELSE IF s[Len(s)] = 32 THEN Strip(SubSeq(s, 1, Len(s) - 1))
    ELSE s

\* str(n) for an int: its decimal digits.
RECURSIVE Str(_)
Str(n) ==
    IF n < 0 THEN <<45>> \o Str(0 - n)
    ELSE IF n < 10 THEN <<48 + n>>
    ELSE Str(n \div 10) \o <<48 + (n % 10)>>

\* str(v), as an f-string renders a value.
PyFormat(v) ==
    IF v.t = "NoneType" THEN <<78, 111, 110, 101>>
    ELSE IF v.t = "bool"
    THEN (IF v.v THEN <<84, 114, 117, 101>> ELSE <<70, 97, 108, 115, 101>>)
    ELSE IF v.t = "int" THEN Str(v.v)
    ELSE v.v

\* ScriptGenerator._is_nullable
IsNullable(col) ==
    LET \* "YES", "Y", "TRUE", "1"
        NullableTexts == {<<89, 69, 83>>, <<89>>, <<84, 82, 85, 69>>, <<49>>}
    IN
        LET nullable == DictGet(col, "is_nullable", PyNone)
        IN  IF nullable = PyNone THEN TRUE
            ELSE Upper(Strip(PyFormat(nullable))) \in NullableTexts

\* "int", "char", "decimal" and the other type names the code tests for.
TypeInt == <<105, 110, 116>>

TypeChar == <<99, 104, 97, 114>>

\* A piece of formatted text: the literal text of an f-string with {} for
\* each value put into it, and the values.
Text(fmt, vals) == [fmt |-> fmt, vals |-> vals]

\* (col.get("data_type") or "").lower()
DataTypeOf(col) ==
    LET dt == DictGet(col, "data_type", PyNone)
    IN  IF PyTruthy(dt) THEN Lower(dt.v) ELSE <<>>

\* ScriptGenerator._format_column_type
FormatColumnType(col) ==
    LET \* varchar, nvarchar, char, nchar, binary, varbinary
        SizedTypes ==
            { <<118, 97, 114, 99, 104, 97, 114>>, <<110, 118, 97, 114, 99, 104, 97, 114>>,
              TypeChar, <<110, 99, 104, 97, 114>>, <<98, 105, 110, 97, 114, 121>>,
              <<118, 97, 114, 98, 105, 110, 97, 114, 121>> }
    IN
        LET \* decimal, numeric
            ScaledTypes ==
                LET TypeDecimal == <<100, 101, 99, 105, 109, 97, 108>>
                IN
                    {TypeDecimal, <<110, 117, 109, 101, 114, 105, 99>>}
        IN
            LET data_type == DataTypeOf(col)
                max_len == DictGet(col, "max_length", PyNone)
                precision == DictGet(col, "precision", PyNone)
                scale == DictGet(col, "scale", PyNone)
                type_str == Upper(data_type)
            IN  IF data_type \in SizedTypes
                THEN IF max_len = PyInt(-1) THEN Text("{}(MAX)", <<type_str>>)
                     ELSE IF PyTruthy(max_len) /\ max_len.v > 0
                     THEN Text("{}({})", <<type_str, PyFormat(max_len)>>)
                     ELSE Text("{}", <<type_str>>)
                ELSE IF data_type \in ScaledTypes /\ PyTruthy(precision)
                THEN IF scale # PyNone
                     THEN Text("{}({},{})", <<type_str, PyFormat(precision), PyFormat(scale)>>)
                     ELSE Text("{}({})", <<type_str, PyFormat(precision)>>)
                ELSE Text("{}", <<type_str>>)

\* ScriptGenerator._format_full_column_definition: the parts joined by " ".
FormatFullColumnDefinition(col) ==
    LET col_name == DictGet(col, "name", <<>>)
        opt(c, piece) == IF c THEN <<piece>> ELSE <<>>
    IN  IF PyTruthy(DictGet(col, "is_computed", PyNone))
        THEN << Text("[{}] AS {}{}",
                     << col_name,
                        PyFormat(DictGet(col, "computed_definition", PyStr(<<>>))),
                        IF PyTruthy(DictGet(col, "is_persisted", PyNone))
                        THEN <<32, 80, 69, 82, 83, 73, 83, 84, 69, 68>> ELSE <<>> >>) >>
        ELSE << Text("[{}]", <<col_name>>), FormatColumnType(col) >>
             \o opt(PyTruthy(DictGet(col, "collation", PyNone)),
                    Text("COLLATE {}", <<PyFormat(DictGet(col, "collation", PyNone))>>))
             \o opt(PyTruthy(DictGet(col, "is_sparse", PyNone)), Text("SPARSE", <<>>))
             \o << IF IsNullable(col) THEN Text("NULL", <<>>) ELSE Text("NOT NULL", <<>>) >>
             \o opt(PyTruthy(DictGet(col, "is_identity", PyNone)),
                    Text("IDENTITY({},{})",
                         << PyFormat(DictGet(col, "identity_seed", PyInt(1))),
                            PyFormat(DictGet(col, "identity_increment", PyInt(1))) >>))
             \o opt(PyTruthy(DictGet(col, "is_rowguidcol", PyNone)), Text("ROWGUIDCOL", <<>>))
             \o opt(PyTruthy(DictGet(col, "default_value", PyNone)),
                    Text("DEFAULT {}", <<PyFormat(DictGet(col, "default_value", PyNone))>>))

\* ScriptGenerator._column_signature
ColumnSignatureMutNoNullability(col) ==
    LET identity == PyTruthy(DictGet(col, "is_identity", PyNone))
        computed == PyTruthy(DictGet(col, "is_computed", PyNone))
        default == DictGet(col, "default_value", PyNone)
    IN  << PyStr(DataTypeOf(col)),
           DictGet(col, "max_length", PyNone),
           DictGet(col, "precision", PyNone),
           DictGet(col, "scale", PyNone),
           PyBool(TRUE),
           IF default # PyNone THEN PyStr(PyFormat(default)) ELSE PyNone,
           DictGet(col, "is_identity", PyBool(FALSE)),
           IF identity THEN DictGet(col, "identity_seed", PyNone) ELSE PyNone,
           IF identity THEN DictGet(col, "identity_increment", PyNone) ELSE PyNone,
           DictGet(col, "is_computed", PyBool(FALSE)),
           IF computed THEN DictGet(col, "computed_definition", PyNone) ELSE PyNone,
           IF computed THEN DictGet(col, "is_persisted", PyBool(FALSE)) ELSE PyNone,
           DictGet(col, "collation", PyNone),
           DictGet(col, "is_sparse", PyBool(FALSE)),
           DictGet(col, "is_rowguidcol", PyBool(FALSE)) >>

ColumnSignature(col) ==
    LET identity == PyTruthy(DictGet(col, "is_identity", PyNone))
        computed == PyTruthy(DictGet(col, "is_computed", PyNone))
        default == DictGet(col, "default_value", PyNone)
    IN  << PyStr(DataTypeOf(col)),
           DictGet(col, "max_length", PyNone),
           DictGet(col, "precision", PyNone),
           DictGet(col, "scale", PyNone),
           PyBool(IsNullable(col)),
           IF default # PyNone THEN PyStr(PyFormat(default)) ELSE PyNone,
           DictGet(col, "is_identity", PyBool(FALSE)),
           IF identity THEN DictGet(col, "identity_seed", PyNone) ELSE PyNone,
           IF identity THEN DictGet(col, "identity_increment", PyNone) ELSE PyNone,
           DictGet(col, "is_computed", PyBool(FALSE)),
           IF computed THEN DictGet(col, "computed_definition", PyNone) ELSE PyNone,
           IF computed THEN DictGet(col, "is_persisted", PyBool(FALSE)) ELSE PyNone,
           DictGet(col, "collation", PyNone),
           DictGet(col, "is_sparse", PyBool(FALSE)),
           DictGet(col, "is_rowguidcol", PyBool(FALSE)) >>

\* {c.get("name"): c for c in cols if c.get("name")}: the keys in insertion
\* order (a repeated name keeps its first place) and the record kept for
\* each key (the last one written).
RECURSIVE NamesInOrder(_, _)
NamesInOrder(cols, seen) ==
    IF cols = <<>> THEN <<>>
    ELSE LET n == DictGet(Head(cols), "name", <<>>)
         IN  IF n = <<>> \/ n \in seen THEN NamesInOrder(Tail(cols), seen)
             ELSE <<n>> \o NamesInOrder(Tail(cols), seen \cup {n})

ColsByName(cols) ==
    [n \in {DictGet(cols[i], "name", <<>>) : i \in DOMAIN cols} \ {<<>>} |->
        cols[CHOOSE i \in DOMAIN cols :
                 /\ DictGet(cols[i], "name", <<>>) = n
                 /\ \A j \in DOMAIN cols : DictGet(cols[j], "name", <<>>) = n => j <= i]]

\* ScriptGenerator._compare_columns
CompareColumns(src_table, tgt_table) ==
    LET \* sig_a != sig_b on two signature tuples
        SignaturesDiffer(a, b) == \E i \in DOMAIN a : ~PyEq(a[i], b[i])
    IN
        LET scols == DictGet(src_table, "columns", <<>>)
            tcols == DictGet(tgt_table, "columns", <<>>)
            src_cols == ColsByName(scols)
            tgt_cols == ColsByName(tcols)
            snames == NamesInOrder(scols, {})
            tnames == NamesInOrder(tcols, {})
            onlysrc == SelectSeq(snames, LAMBDA n : n \notin DOMAIN tgt_cols)
            onlytgt == SelectSeq(tnames, LAMBDA n : n \notin DOMAIN src_cols)
            both == SelectSeq(snames,
                        LAMBDA n : /\ n \in DOMAIN tgt_cols
                                   /\ SignaturesDiffer(ColumnSignature(src_cols[n]),
                                                       ColumnSignature(tgt_cols[n])))
        IN  [ added |-> [i \in DOMAIN onlysrc |-> src_cols[onlysrc[i]]],
              removed |-> [i \in DOMAIN onlytgt |-> tgt_cols[onlytgt[i]]],
              changed |-> [i \in DOMAIN both |-> <<src_cols[both[i]], tgt_cols[both[i]]>>] ]

---------------------------------------------------------------------------
(* ScriptGenerator: the statements of the phases                           *)
(*                                                                         *)
(* An element of the list `lines` is a Text: the literal text of the       *)
(* f-string that builds it and the values put into it.                     *)

Lit(text) == Text(text, <<>>)

Banner ==
    Lit("-- ==============================================================================")

Blank == Lit("")

Go == Lit("GO")

RECURSIVE ConcatAll(_)
\* lines.extend(...) over a list of line lists
ConcatAll(ss) == IF ss = <<>> THEN <<>> ELSE Head(ss) \o ConcatAll(Tail(ss))

\* [item for item in self.results.get(obj_type, []) if item.get("status") == st]
ItemsWithStatus(res, obj_type, st) ==
    SelectSeq(DictGet(res, obj_type, <<>>), LAMBDA item : item.status = st)

\* len(name.split(".")): one more than the separators in the name
SplitCount(name) == Cardinality({i \in DOMAIN name : name[i] = Dot}) + 1

\* ScriptGenerator._drop_statement
DropStatement(obj_type, name) ==
    IF obj_type = "views"
    THEN <<Text("IF OBJECT_ID('{}', 'V') IS NOT NULL DROP VIEW {};", <<name, name>>), Go, Blank>>
    ELSE IF obj_type = "procedures"
    THEN <<Text("IF OBJECT_ID('{}', 'P') IS NOT NULL DROP PROCEDURE {};", <<name, name>>), Go, Blank>>
    ELSE IF obj_type = "functions"
    THEN <<Text("IF OBJECT_ID('{}', 'FN') IS NOT NULL DROP FUNCTION {};", <<name, name>>), Go, Blank>>
    ELSE IF obj_type = "triggers"
    THEN <<Text("IF OBJECT_ID('{}', 'TR') IS NOT NULL DROP TRIGGER {};", <<name, name>>), Go, Blank>>
    ELSE IF obj_type = "synonyms"
    THEN <<Text("IF OBJECT_ID('{}', 'SN') IS NOT NULL DROP SYNONYM {};", <<name, name>>), Go, Blank>>
    ELSE IF obj_type = "tables"
    THEN <<Text("IF OBJECT_ID('{}', 'U') IS NOT NULL DROP TABLE {};", <<name, name>>), Go, Blank>>
    ELSE <<Text("-- TODO: drop " \o obj_type \o "[:-1] {}", <<name>>), Blank>>

\* The names of a list of records, each once, in insertion order.
RECURSIVE RecordNames(_, _)
RecordNames(recs, seen) ==
    IF recs = <<>> THEN <<>>
    ELSE IF Head(recs).name \in seen THEN RecordNames(Tail(recs), seen)
    ELSE <<Head(recs).name>> \o RecordNames(Tail(recs), seen \cup {Head(recs).name})

FksToDropOfMutAllTarget(table_item) ==
    LET target_fks == DictGet(table_item.details.target, "foreign_keys", <<>>)
        gone == RecordNames(target_fks, {})
    IN  [i \in DOMAIN gone |-> [table |-> table_item.name, fk_name |-> gone[i]]]

\* The foreign keys one DIFFERENT table adds to fks_to_drop (lines 262-273).
FksToDropOf(table_item) ==
    LET source_fks == DictGet(table_item.details.source, "foreign_keys", <<>>)
        target_fks == DictGet(table_item.details.target, "foreign_keys", <<>>)
        gone == SelectSeq(RecordNames(target_fks, {}),
                          LAMBDA n : n \notin {source_fks[i].name : i \in DOMAIN source_fks})
    IN  [i \in DOMAIN gone |-> [table |-> table_item.name, fk_name |-> gone[i]]]

\* source.get(...) or target.get(...) on None: the drop phase raises
\* AttributeError for a DIFFERENT table one side of which is None.
DropPhaseRaises(res) ==
    \E i \in DOMAIN DictGet(res, "tables", <<>>) :
        LET item == res["tables"][i]
        IN  /\ item.status = "DIFFERENT"
            /\ (item.details.source = NoneVal \/ item.details.target = NoneVal)

GenerateDropPhaseMutKeysLast(res) ==
    LET DropTypes == <<"triggers", "views", "procedures", "functions", "synonyms">>
    IN
        LET modified == ItemsWithStatus(res, "tables", "DIFFERENT")
            fks_to_drop == ConcatAll([i \in DOMAIN modified |-> FksToDropOf(modified[i])])
            dropsOf(obj_type) ==
                LET items == ItemsWithStatus(res, obj_type, "MISSING_IN_SOURCE")
                IN  IF items = <<>> THEN <<>>
                    ELSE <<Text("-- Dropping {} " \o obj_type, <<Str(Len(items))>>)>>
                         \o ConcatAll([i \in DOMAIN items |->
                                          DropStatement(obj_type, items[i].name)])
                         \o <<Blank>>
        IN  <<Banner, Lit("-- PHASE 1: DROP EXTRA OBJECTS (MISSING_IN_SOURCE)"), Banner, Blank>>
            \o ConcatAll([k \in DOMAIN DropTypes |-> dropsOf(DropTypes[k])])
            \o (IF fks_to_drop = <<>> THEN <<>>
                ELSE <<Text("-- Dropping {} foreign keys", <<Str(Len(fks_to_drop))>>)>>
                     \o [i \in DOMAIN fks_to_drop |->
                            Text("ALTER TABLE {} DROP CONSTRAINT [{}];",
                                 <<fks_to_drop[i].table, fks_to_drop[i].fk_name>>)]
                     \o <<Blank>>)

\* ScriptGenerator._generate_drop_phase
GenerateDropPhase(res) ==
    LET DropTypes == <<"triggers", "views", "procedures", "functions", "synonyms">>
    IN
        LET modified == ItemsWithStatus(res, "tables", "DIFFERENT")
            fks_to_drop == ConcatAll([i \in DOMAIN modified |-> FksToDropOf(modified[i])])
            dropsOf(obj_type) ==
                LET items == ItemsWithStatus(res, obj_type, "MISSING_IN_SOURCE")
                IN  IF items = <<>> THEN <<>>
                    ELSE <<Text("-- Dropping {} " \o obj_type, <<Str(Len(items))>>)>>
                         \o ConcatAll([i \in DOMAIN items |->
                                          DropStatement(obj_type, items[i].name)])
                         \o <<Blank>>
        IN  <<Banner, Lit("-- PHASE 1: DROP EXTRA OBJECTS (MISSING_IN_SOURCE)"), Banner, Blank>>
            \o (IF fks_to_drop = <<>> THEN <<>>
                ELSE <<Text("-- Dropping {} foreign keys", <<Str(Len(fks_to_drop))>>)>>
                     \o [i \in DOMAIN fks_to_drop |->
                            Text("ALTER TABLE {} DROP CONSTRAINT [{}];",
                                 <<fks_to_drop[i].table, fks_to_drop[i].fk_name>>)]
                     \o <<Blank>>)
            \o ConcatAll([k \in DOMAIN DropTypes |-> dropsOf(DropTypes[k])])

\* ScriptGenerator._create_table_statement
CreateTableStatementMutFirstColumn(metadata, table_name) ==
    LET tables_metadata == DictGet(metadata, "tables", EmptyDict)
        table_data == DictGet(tables_metadata, table_name, EmptyDict)
        columns == DictGet(table_data, "columns", <<>>)
    IN  IF columns = <<>>
        THEN <<Text("-- TODO: CREATE TABLE {} (no column metadata available)", <<table_name>>)>>
        ELSE << Text("PRINT 'Creating table {}...';", <<table_name>>),
                Text("CREATE TABLE {} (", <<table_name>>),
                Text("    {} joined by ',\n'", <<FormatFullColumnDefinition(columns[1])>>),
                Lit(");"), Go, Blank >>

CreateTableStatement(metadata, table_name) ==
    LET tables_metadata == DictGet(metadata, "tables", EmptyDict)
        table_data == DictGet(tables_metadata, table_name, EmptyDict)
        columns == DictGet(table_data, "columns", <<>>)
    IN  IF columns = <<>>
        THEN <<Text("-- TODO: CREATE TABLE {} (no column metadata available)", <<table_name>>)>>
        ELSE << Text("PRINT 'Creating table {}...';", <<table_name>>),
                Text("CREATE TABLE {} (", <<table_name>>),
                Text("    {} joined by ',\n'",
                     [i \in DOMAIN columns |-> FormatFullColumnDefinition(columns[i])]),
                Lit(");"), Go, Blank >>

ChangedColumnLinesMutIdentityOnly(table_name, src_col, tgt_col) ==
    LET col_name == DictGet(src_col, "name", <<>>)
        flag(c, k) == DictGet(c, k, PyBool(FALSE))
        collation_changed ==
            DictGet(src_col, "collation", PyNone) # DictGet(tgt_col, "collation", PyNone)
    IN  IF ~PyEq(flag(src_col, "is_identity"), flag(tgt_col, "is_identity"))
        THEN << Text("-- WARNING: Cannot ALTER identity/computed column [{}]. Using DROP + ADD pattern.",
                     <<col_name>>),
                Lit("-- This may cause data loss. Consider manual migration if data preservation is needed."),
                Text("ALTER TABLE {} DROP COLUMN [{}];", <<table_name, col_name>>),
                Text("ALTER TABLE {} ADD {};",
                     <<table_name, FormatFullColumnDefinition(src_col)>>) >>
        ELSE << Text("-- NOTE: Changing definition of column [{}] on {}. Review for potential data impact.",
                     <<col_name, table_name>>),
                Text("ALTER TABLE {} ALTER COLUMN [{}] {}{} {};",
                     << table_name, col_name, FormatColumnType(src_col),
                        IF PyTruthy(DictGet(src_col, "collation", PyNone)) /\ collation_changed
                        THEN Text(" COLLATE {}", <<PyFormat(src_col.collation)>>)
                        ELSE Lit(""),
                        IF IsNullable(src_col) THEN Lit("NULL") ELSE Lit("NOT NULL") >>) >>

\* The lines _alter_table_columns adds for one changed column (596-627).
ChangedColumnLines(table_name, src_col, tgt_col) ==
    LET col_name == DictGet(src_col, "name", <<>>)
        flag(c, k) == DictGet(c, k, PyBool(FALSE))
        collation_changed ==
            DictGet(src_col, "collation", PyNone) # DictGet(tgt_col, "collation", PyNone)
    IN  IF \/ ~PyEq(flag(src_col, "is_identity"), flag(tgt_col, "is_identity"))
           \/ ~PyEq(flag(src_col, "is_computed"), flag(tgt_col, "is_computed"))
        THEN << Text("-- WARNING: Cannot ALTER identity/computed column [{}]. Using DROP + ADD pattern.",
                     <<col_name>>),
                Lit("-- This may cause data loss. Consider manual migration if data preservation is needed."),
                Text("ALTER TABLE {} DROP COLUMN [{}];", <<table_name, col_name>>),
                Text("ALTER TABLE {} ADD {};",
                     <<table_name, FormatFullColumnDefinition(src_col)>>) >>
        ELSE << Text("-- NOTE: Changing definition of column [{}] on {}. Review for potential data impact.",
                     <<col_name, table_name>>),
                Text("ALTER TABLE {} ALTER COLUMN [{}] {}{} {};",
                     << table_name, col_name, FormatColumnType(src_col),
                        IF PyTruthy(DictGet(src_col, "collation", PyNone)) /\ collation_changed
                        THEN Text(" COLLATE {}", <<PyFormat(src_col.collation)>>)
                        ELSE Lit(""),
                        IF IsNullable(src_col) THEN Lit("NULL") ELSE Lit("NOT NULL") >>) >>

\* ScriptGenerator._alter_table_columns
AlterTableColumns(table_name, details) ==
    IF SplitCount(table_name) # 2
    THEN <<Text("-- Unable to ALTER TABLE {} (invalid name format)", <<table_name>>)>>
    ELSE LET src_table == OrDict(DictGet(details, "source", NoneVal))
             tgt_table == OrDict(DictGet(details, "target", NoneVal))
             delta == CompareColumns(src_table, tgt_table)
         IN  IF delta.added = <<>> /\ delta.removed = <<>> /\ delta.changed = <<>>
             THEN << Text("PRINT 'Modifying table {}...';", <<table_name>>),
                     Text("-- No column-level differences detected for {}", <<table_name>>),
                     Blank >>
             ELSE <<Text("PRINT 'Modifying table {}...';", <<table_name>>)>>
                  \o [i \in DOMAIN delta.added |->
                         Text("ALTER TABLE {} ADD {};",
                              <<table_name, FormatFullColumnDefinition(delta.added[i])>>)]
                  \o ConcatAll([i \in DOMAIN delta.removed |->
                         << Text("-- WARNING: Dropping column [{}] from {} may cause data loss.",
                                 <<DictGet(delta.removed[i], "name", <<>>), table_name>>),
                            Text("ALTER TABLE {} DROP COLUMN [{}];",
                                 <<table_name, DictGet(delta.removed[i], "name", <<>>)>>) >>])
                  \o ConcatAll([i \in DOMAIN delta.changed |->
                         ChangedColumnLines(table_name, delta.changed[i][1],
                                            delta.changed[i][2])])
                  \o <<Blank>>

\* ScriptGenerator._generate_table_phase
GenerateTablePhase(res, metadata) ==
    LET new_tables == ItemsWithStatus(res, "tables", "MISSING_IN_TARGET")
        modified_tables == ItemsWithStatus(res, "tables", "DIFFERENT")
    IN  <<Banner, Lit("-- PHASE 2: TABLES AND COLUMNS"), Banner, Blank>>
        \o (IF new_tables = <<>> THEN <<>>
            ELSE <<Text("-- Creating {} new tables", <<Str(Len(new_tables))>>)>>
                 \o ConcatAll([i \in DOMAIN new_tables |->
                                  CreateTableStatement(metadata, new_tables[i].name)])
                 \o <<Blank>>)
        \o (IF modified_tables = <<>> THEN <<>>
            ELSE <<Text("-- Modifying {} existing tables", <<Str(Len(modified_tables))>>)>>
                 \o ConcatAll([i \in DOMAIN modified_tables |->
                                  AlterTableColumns(modified_tables[i].name,
                                                    modified_tables[i].details)])
                 \o <<Blank>>)

\* ", ".join([f"[{col}]" for col in columns])
ColList(columns) == Text("[{}] joined by ', '", columns)

\* ScriptGenerator._create_primary_key_from_table_metadata
CreatePrimaryKeyFromTableMetadata(table_name, pk) ==
    LET pk_name == DictGet(pk, "name", <<>>)
        columns == DictGet(pk, "columns", <<>>)
    IN  IF columns = <<>>
        THEN <<Text("-- TODO: CREATE PRIMARY KEY on {} (no column information)", <<table_name>>)>>
        ELSE << Text("PRINT 'Adding primary key {} on {}...';", <<pk_name, table_name>>),
                Text("ALTER TABLE {} ADD CONSTRAINT [{}] PRIMARY KEY ({});",
                     <<table_name, pk_name, ColList(columns)>>),
                Go, Blank >>

\* name.rsplit(".", 1): the text before and after the last separator
LastDot(name) == CHOOSE i \in DOMAIN name : name[i] = Dot /\ \A j \in DOMAIN name : name[j] = Dot => j <= i

HasDot(name) == \E i \in DOMAIN name : name[i] = Dot

BeforeLastDot(name) == SubSeq(name, 1, LastDot(name) - 1)

AfterLastDot(name) == SubSeq(name, LastDot(name) + 1, Len(name))

\* ScriptGenerator._create_unique_constraint_statement
CreateUniqueConstraintStatement(uq_item) ==
    LET name == uq_item.name
        source_uq == DictGet(uq_item.details, "source", EmptyDict)
        columns == DictGet(source_uq, "columns", <<>>)
    IN  IF columns = <<>>
        THEN <<Text("-- TODO: CREATE UNIQUE CONSTRAINT {} (no column information)", <<name>>)>>
        ELSE IF ~HasDot(name)
        THEN <<Text("-- TODO: CREATE UNIQUE CONSTRAINT {} (invalid name format)", <<name>>)>>
        ELSE << Text("ALTER TABLE {} ADD CONSTRAINT [{}] UNIQUE ({});",
                     <<BeforeLastDot(name), AfterLastDot(name), ColList(columns)>>),
                Blank >>

\* ScriptGenerator._create_check_constraint_statement
CreateCheckConstraintStatement(chk_item) ==
    LET name == chk_item.name
        source_chk == DictGet(chk_item.details, "source", EmptyDict)
        definition == DictGet(source_chk, "definition", <<>>)
    IN  IF definition = <<>>
        THEN <<Text("-- TODO: CREATE CHECK CONSTRAINT {} (no definition)", <<name>>)>>
        ELSE IF ~HasDot(name)
        THEN <<Text("-- TODO: CREATE CHECK CONSTRAINT {} (invalid name format)", <<name>>)>>
        ELSE << Text("ALTER TABLE {} ADD CONSTRAINT [{}] CHECK {};",
                     <<BeforeLastDot(name), AfterLastDot(name), definition>>),
                Blank >>

\* ScriptGenerator._create_default_constraint_statement
CreateDefaultConstraintStatement(df_item) ==
    LET name == df_item.name
        source_df == DictGet(df_item.details, "source", EmptyDict)
        column == DictGet(source_df, "column", <<>>)
        definition == DictGet(source_df, "definition", <<>>)
    IN  IF column = <<>> \/ definition = <<>>
        THEN <<Text("-- TODO: CREATE DEFAULT CONSTRAINT {} (missing information)", <<name>>)>>
        ELSE IF ~HasDot(name)
        THEN <<Text("-- TODO: CREATE DEFAULT CONSTRAINT {} (invalid name format)", <<name>>)>>
        ELSE << Text("ALTER TABLE {} ADD CONSTRAINT [{}] DEFAULT {} FOR [{}];",
                     <<BeforeLastDot(name), AfterLastDot(name), definition, column>>),
                Blank >>

\* "NO_ACTION"
NoAction == <<78, 79, 95, 65, 67, 84, 73, 79, 78>>

\* ScriptGenerator._create_foreign_key_from_table_metadata
CreateForeignKeyFromTableMetadata(table_name, fk) ==
    LET \* rule.replace("_", " ")
        Unscore(rule) == [i \in DOMAIN rule |-> IF rule[i] = 95 THEN 32 ELSE rule[i]]
    IN
        LET fk_name == DictGet(fk, "name", <<>>)
            columns == DictGet(fk, "columns", <<>>)
            ref_table == DictGet(fk, "referenced_table", <<>>)
            ref_columns == DictGet(fk, "referenced_columns", <<>>)
            delete_rule == DictGet(fk, "delete_rule", NoAction)
            update_rule == DictGet(fk, "update_rule", NoAction)
            clause(kw, rule) == IF rule = NoAction THEN Lit("") ELSE Text(kw, <<Unscore(rule)>>)
        IN  IF columns = <<>> \/ ref_columns = <<>>
            THEN <<Text("-- TODO: CREATE FOREIGN KEY {} on {} (missing column information)",
                        <<fk_name, table_name>>)>>
            ELSE << Text("ALTER TABLE {} ADD CONSTRAINT [{}] ", <<table_name, fk_name>>),
                    Text("    FOREIGN KEY ({})", <<ColList(columns)>>),
                    Text("    REFERENCES {} ({}){}{};",
                         << ref_table, ColList(ref_columns),
                            clause(" ON DELETE {}", delete_rule),
                            clause(" ON UPDATE {}", update_rule) >>),
                    Go, Blank >>

\* ScriptGenerator._create_index_from_table_metadata
CreateIndexFromTableMetadata(table_name, idx) ==
    LET \* "NONCLUSTERED"
        NonClustered == <<78, 79, 78, 67, 76, 85, 83, 84, 69, 82, 69, 68>>
    IN
        LET idx_name == DictGet(idx, "name", <<>>)
            columns == DictGet(idx, "columns", <<>>)
            included_columns == DictGet(idx, "included_columns", <<>>)
        IN  IF DictGet(idx, "is_primary_key", FALSE) THEN <<>>
            ELSE IF columns = <<>>
            THEN <<Text("-- TODO: CREATE INDEX {} on {} (no column information)",
                        <<idx_name, table_name>>)>>
            ELSE << Text("CREATE {}{} INDEX [{}] ON {} ({}){};",
                         << IF DictGet(idx, "is_unique", FALSE) THEN Lit("UNIQUE ") ELSE Lit(""),
                            DictGet(idx, "type_desc", NonClustered), idx_name, table_name,
                            ColList(columns),
                            IF included_columns # <<>>
                            THEN Text(" INCLUDE ({})", <<ColList(included_columns)>>)
                            ELSE Lit("") >>),
                    Blank >>

\* The record the constraint phase reads a table's keys and indexes from:
\* details for a new table, details.source for a changed one (346-356).
ConstraintSource(table_item) ==
    IF table_item.status = "MISSING_IN_TARGET" THEN table_item.details
    ELSE DictGet(table_item.details, "source", EmptyDict)

\* source.get("primary_key") on None: the constraint phase raises
\* AttributeError for a DIFFERENT table whose source side is None.
ConstraintPhaseRaises(res) ==
    \E i \in DOMAIN DictGet(res, "tables", <<>>) :
        /\ res["tables"][i].status = "DIFFERENT"
        /\ res["tables"][i].details.source = NoneVal

GenerateConstraintPhaseMutFksFirst(res) ==
    LET tables == SelectSeq(DictGet(res, "tables", <<>>),
                      LAMBDA t : t.status \in {"MISSING_IN_TARGET", "DIFFERENT"})
        with_pk == SelectSeq(tables,
                      LAMBDA t : Truthy(DictGet(ConstraintSource(t), "primary_key", NoneVal)))
        indexes_to_create ==
            ConcatAll([i \in DOMAIN tables |->
                LET indexes == DictGet(ConstraintSource(tables[i]), "indexes", <<>>)
                IN  [k \in DOMAIN indexes |->
                        [table_name |-> tables[i].name, index |-> indexes[k]]]])
        fks_to_create ==
            ConcatAll([i \in DOMAIN tables |->
                LET fks == DictGet(ConstraintSource(tables[i]), "foreign_keys", <<>>)
                IN  [k \in DOMAIN fks |-> [table_name |-> tables[i].name, fk |-> fks[k]]]])
        new_uq == ItemsWithStatus(res, "unique_constraints", "MISSING_IN_TARGET")
        new_cc == ItemsWithStatus(res, "check_constraints", "MISSING_IN_TARGET")
        new_def == ItemsWithStatus(res, "default_constraints", "MISSING_IN_TARGET")
        section(n, title, body) ==
            IF n = 0 THEN <<>> ELSE <<Text(title, <<Str(n)>>)>> \o body \o <<Blank>>
    IN  <<Banner, Lit("-- PHASE 3: CONSTRAINTS AND INDEXES"), Banner, Blank>>
        \o section(Len(with_pk), "-- Adding/modifying {} primary keys",
                   ConcatAll([i \in DOMAIN with_pk |->
                       CreatePrimaryKeyFromTableMetadata(
                           with_pk[i].name, ConstraintSource(with_pk[i]).primary_key)]))
        \o section(Len(new_uq), "-- Adding {} unique constraints",
                   ConcatAll([i \in DOMAIN new_uq |-> CreateUniqueConstraintStatement(new_uq[i])]))
        \o section(Len(new_cc), "-- Adding {} check constraints",
                   ConcatAll([i \in DOMAIN new_cc |-> CreateCheckConstraintStatement(new_cc[i])]))
        \o section(Len(new_def), "-- Adding {} default constraints",
                   ConcatAll([i \in DOMAIN new_def |-> CreateDefaultConstraintStatement(new_def[i])]))
        \o section(Len(fks_to_create), "-- Adding {} foreign keys",
                   ConcatAll([i \in DOMAIN fks_to_create |->
                       CreateForeignKeyFromTableMetadata(fks_to_create[i].table_name,
                                                         fks_to_create[i].fk)]))
        \o section(Len(indexes_to_create), "-- Creating/modifying {} indexes",
                   ConcatAll([i \in DOMAIN indexes_to_create |->
                       CreateIndexFromTableMetadata(indexes_to_create[i].table_name,
                                                    indexes_to_create[i].index)]))

\* ScriptGenerator._generate_constraint_phase
GenerateConstraintPhase(res) ==
    LET tables == SelectSeq(DictGet(res, "tables", <<>>),
                      LAMBDA t : t.status \in {"MISSING_IN_TARGET", "DIFFERENT"})
        with_pk == SelectSeq(tables,
                      LAMBDA t : Truthy(DictGet(ConstraintSource(t), "primary_key", NoneVal)))
        indexes_to_create ==
            ConcatAll([i \in DOMAIN tables |->
                LET indexes == DictGet(ConstraintSource(tables[i]), "indexes", <<>>)
                IN  [k \in DOMAIN indexes |->
                        [table_name |-> tables[i].name, index |-> indexes[k]]]])
        fks_to_create ==
            ConcatAll([i \in DOMAIN tables |->
                LET fks == DictGet(ConstraintSource(tables[i]), "foreign_keys", <<>>)
                IN  [k \in DOMAIN fks |-> [table_name |-> tables[i].name, fk |-> fks[k]]]])
        new_uq == ItemsWithStatus(res, "unique_constraints", "MISSING_IN_TARGET")
        new_cc == ItemsWithStatus(res, "check_constraints", "MISSING_IN_TARGET")
        new_def == ItemsWithStatus(res, "default_constraints", "MISSING_IN_TARGET")
        section(n, title, body) ==
            IF n = 0 THEN <<>> ELSE <<Text(title, <<Str(n)>>)>> \o body \o <<Blank>>
    IN  <<Banner, Lit("-- PHASE 3: CONSTRAINTS AND INDEXES"), Banner, Blank>>
        \o section(Len(with_pk), "-- Adding/modifying {} primary keys",
                   ConcatAll([i \in DOMAIN with_pk |->
                       CreatePrimaryKeyFromTableMetadata(
                           with_pk[i].name, ConstraintSource(with_pk[i]).primary_key)]))
        \o section(Len(new_uq), "-- Adding {} unique constraints",
                   ConcatAll([i \in DOMAIN new_uq |-> CreateUniqueConstraintStatement(new_uq[i])]))
        \o section(Len(new_cc), "-- Adding {} check constraints",
                   ConcatAll([i \in DOMAIN new_cc |-> CreateCheckConstraintStatement(new_cc[i])]))
        \o section(Len(new_def), "-- Adding {} default constraints",
                   ConcatAll([i \in DOMAIN new_def |-> CreateDefaultConstraintStatement(new_def[i])]))
        \o section(Len(indexes_to_create), "-- Creating/modifying {} indexes",
                   ConcatAll([i \in DOMAIN indexes_to_create |->
                       CreateIndexFromTableMetadata(indexes_to_create[i].table_name,
                                                    indexes_to_create[i].index)]))
        \o section(Len(fks_to_create), "-- Adding {} foreign keys",
                   ConcatAll([i \in DOMAIN fks_to_create |->
                       CreateForeignKeyFromTableMetadata(fks_to_create[i].table_name,
                                                         fks_to_create[i].fk)]))

\* ScriptGenerator._create_programmability_statement
CreateProgrammabilityStatement(obj_type, name, details) ==
    LET src == DictGet(details, "source", EmptyDict)
        definition == DictGet(src, "definition", <<>>)
        \* obj_type[:-1]
        singular ==
            CASE obj_type = "functions" -> "function"
              [] obj_type = "views" -> "view"
              [] obj_type = "procedures" -> "procedure"
              [] obj_type = "triggers" -> "trigger"
        \* obj_type[:-1].upper()
        singular_upper ==
            CASE obj_type = "functions" -> "FUNCTION"
              [] obj_type = "views" -> "VIEW"
              [] obj_type = "procedures" -> "PROCEDURE"
              [] obj_type = "triggers" -> "TRIGGER"
    IN  IF definition = <<>>
        THEN <<Text("-- TODO: CREATE " \o singular_upper
                        \o " {} (no definition available)", <<name>>)>>
        ELSE << Text("PRINT 'Creating/modifying " \o singular \o " {}...';", <<name>>),
                Text("{}", <<definition>>),
                Go,
                Blank >>

\* source.get("definition", "") on None: the programmability phase raises
\* AttributeError for an item whose details hold "source": None.
ProgrammabilityPhaseRaises(ordered) ==
    \E i \in DOMAIN ordered :
        \E k \in DOMAIN ordered[i][2] :
            DictGet(ordered[i][2][k].details, "source", EmptyDict) = NoneVal

\* ScriptGenerator._generate_programmability_phase, given the value
\* _ordered_programmability_items() returned.
GenerateProgrammabilityPhase(ordered) ==
    <<Banner, Lit("-- PHASE 4: PROGRAMMABILITY OBJECTS"), Banner, Blank>>
    \o ConcatAll([i \in DOMAIN ordered |->
           LET obj_type == ordered[i][1]
               items == ordered[i][2]
           IN  IF items = <<>> THEN <<>>
               ELSE <<Text("-- Creating/modifying {} " \o obj_type, <<Str(Len(items))>>)>>
                    \o ConcatAll([k \in DOMAIN items |->
                           CreateProgrammabilityStatement(obj_type, items[k].name,
                                                          items[k].details)])
                    \o <<Blank>>])

\* ScriptGenerator._generate_misc_phase
GenerateMiscPhase(res) ==
    LET \* The lines the misc phase adds for one new synonym (458-464).
        SynonymLines(syn) ==
            LET source_syn == DictGet(syn.details, "source", EmptyDict)
                base_obj == DictGet(source_syn, "base_object_name", <<>>)
            IN  IF base_obj # <<>>
                THEN <<Text("CREATE SYNONYM {} FOR {};", <<syn.name, base_obj>>), Go>>
                ELSE <<>>
    IN
        LET new_synonyms == ItemsWithStatus(res, "synonyms", "MISSING_IN_TARGET")
        IN  <<Banner, Lit("-- PHASE 5: MISCELLANEOUS OBJECTS"), Banner, Blank>>
            \o (IF new_synonyms = <<>> THEN <<>>
                ELSE <<Text("-- Creating {} synonyms", <<Str(Len(new_synonyms))>>)>>
                     \o ConcatAll([i \in DOMAIN new_synonyms |-> SynonymLines(new_synonyms[i])])
                     \o <<Blank>>)

\* ScriptGenerator._rollback_table_columns
RollbackTableColumns(table_name, details) ==
    IF SplitCount(table_name) # 2 THEN <<>>
    ELSE LET src_table == OrDict(DictGet(details, "source", NoneVal))
             tgt_table == OrDict(DictGet(details, "target", NoneVal))
             delta == CompareColumns(src_table, tgt_table)
             nullable(c) == IF IsNullable(c) THEN Lit("NULL") ELSE Lit("NOT NULL")
         IN  IF delta.added = <<>> /\ delta.removed = <<>> /\ delta.changed = <<>>
             THEN <<>>
             ELSE <<Text("PRINT 'Reverting column changes on {}...';", <<table_name>>)>>
                  \o [i \in DOMAIN delta.added |->
                         Text("ALTER TABLE {} DROP COLUMN [{}];",
                              <<table_name, DictGet(delta.added[i], "name", <<>>)>>)]
                  \o [i \in DOMAIN delta.removed |->
                         LET orig == delta.removed[i]
                             default_val == DictGet(orig, "default_value", PyNone)
                         IN  Text("ALTER TABLE {} ADD [{}] {} {}{};",
                                  << table_name, DictGet(orig, "name", <<>>),
                                     FormatColumnType(orig), nullable(orig),
                                     IF PyTruthy(default_val)
                                     THEN Text(" DEFAULT {}", <<PyFormat(default_val)>>)
                                     ELSE Lit("") >>)]
                  \o [i \in DOMAIN delta.changed |->
                         LET tgt_col == delta.changed[i][2]
                         IN  Text("ALTER TABLE {} ALTER COLUMN [{}] {} {};",
                                  << table_name, DictGet(tgt_col, "name", <<>>),
                                     FormatColumnType(tgt_col), nullable(tgt_col) >>)]
                  \o <<Blank>>

\* The name of the target database (a constructor argument).
target_db == <<ChX>>

GenerateRollbackMutCreatedOnly(res) ==
    LET modified_tables == ItemsWithStatus(res, "tables", "DIFFERENT")
        new_tables == SelectSeq(ItemsWithStatus(res, "tables", "MISSING_IN_TARGET"),
                                LAMBDA t : DictGet(t.details, "columns", <<>>) # <<>>)
    IN  << Banner,
           Lit("-- ROLLBACK SCRIPT (Generated)"),
           Lit("-- NOTE: Review carefully before running in production."),
           Lit("-- This script attempts to reverse table and column changes."),
           Banner, Blank,
           Text("USE [{}];", <<target_db>>), Go, Blank,
           Lit("SET NOCOUNT ON;"), Lit("SET XACT_ABORT ON;"), Blank,
           Lit("PRINT 'Starting rollback...';"), Lit("PRINT '';"), Blank,
           Lit("BEGIN TRANSACTION;"), Blank >>
        \o ConcatAll([i \in DOMAIN modified_tables |->
               RollbackTableColumns(modified_tables[i].name, modified_tables[i].details)])
        \o ConcatAll([i \in DOMAIN new_tables |->
               IF new_tables[i].name = <<>> THEN <<>>
               ELSE << Text("PRINT 'Dropping newly-created table {} as part of rollback...';",
                            <<new_tables[i].name>>),
                       Text("IF OBJECT_ID('{}', 'U') IS NOT NULL DROP TABLE {};",
                            <<new_tables[i].name, new_tables[i].name>>),
                       Go, Blank >>])
        \o <<Blank, Lit("COMMIT TRANSACTION;"), Lit("PRINT 'Rollback script completed.';"), Go>>

\* ScriptGenerator._generate_rollback
GenerateRollback(res) ==
    LET modified_tables == ItemsWithStatus(res, "tables", "DIFFERENT")
        new_tables == ItemsWithStatus(res, "tables", "MISSING_IN_TARGET")
    IN  << Banner,
           Lit("-- ROLLBACK SCRIPT (Generated)"),
           Lit("-- NOTE: Review carefully before running in production."),
           Lit("-- This script attempts to reverse table and column changes."),
           Banner, Blank,
           Text("USE [{}];", <<target_db>>), Go, Blank,
           Lit("SET NOCOUNT ON;"), Lit("SET XACT_ABORT ON;"), Blank,
           Lit("PRINT 'Starting rollback...';"), Lit("PRINT '';"), Blank,
           Lit("BEGIN TRANSACTION;"), Blank >>
        \o ConcatAll([i \in DOMAIN modified_tables |->
               RollbackTableColumns(modified_tables[i].name, modified_tables[i].details)])
        \o ConcatAll([i \in DOMAIN new_tables |->
               IF new_tables[i].name = <<>> THEN <<>>
               ELSE << Text("PRINT 'Dropping newly-created table {} as part of rollback...';",
                            <<new_tables[i].name>>),
                       Text("IF OBJECT_ID('{}', 'U') IS NOT NULL DROP TABLE {};",
                            <<new_tables[i].name, new_tables[i].name>>),
                       Go, Blank >>])
        \o <<Blank, Lit("COMMIT TRANSACTION;"), Lit("PRINT 'Rollback script completed.';"), Go>>

\* The first lines of generate() (181-198).
Preamble ==
    << Banner, Lit("-- SQL Compare Tool - Deployment Script"),
       Text("-- Target Database: {}", <<target_db>>), Banner, Blank,
       Text("USE [{}];", <<target_db>>), Go, Blank,
       Lit("SET NOCOUNT ON;"), Lit("SET XACT_ABORT ON;"), Lit("SET ANSI_NULLS ON;"),
       Lit("SET QUOTED_IDENTIFIER ON;"), Blank,
       Lit("PRINT 'Starting deployment...';"), Lit("PRINT '';"), Blank >>

OptionKeys ==
    { "wrap_in_transaction", "include_drop_phase", "include_table_phase",
      "include_constraint_phase", "include_programmability_phase",
      "include_misc_phase", "include_rollback_section" }

\* ScriptGenerator.__init__: the defaults, updated with the options given.
Defaults == [k \in OptionKeys |-> TRUE]

MergedOptionsMutNoUpdate(given) == Defaults

MergedOptions(given) ==
    IF Truthy(given)
    THEN [k \in OptionKeys \cup DOMAIN given |->
             IF k \in DOMAIN given THEN given[k] ELSE Defaults[k]]
    ELSE Defaults

\* self.deploy_options.get(key, True)
Option(key) == DictGet(deploy_options, key, TRUE)

---------------------------------------------------------------------------
(* _compare_columns applied to two table records                           *)

\* The most columns of one table record.
MaxCols == 2

ColBase ==
    [ name |-> <<ChA>>, ordinal_position |-> PyInt(1), data_type |-> PyStr(TypeInt),
      max_length |-> PyNone, precision |-> PyNone, scale |-> PyNone,
      is_nullable |-> PyBool(FALSE) ]

\* Adds or replaces fields of a column record.
WithFields(col, upd) ==
    [k \in DOMAIN col \cup DOMAIN upd |-> IF k \in DOMAIN upd THEN upd[k] ELSE col[k]]

ColumnLists ==
    LET \* "a int NOT NULL" and records that differ from it in one respect: the
        \* nullability (as a bool, as None, as the text " y"), fields outside the
        \* signature (upper-case type name, ordinal position), the identity flag;
        \* a second column "b char(5)"; a record without a name.
        ColumnRecs ==
            { ColBase,
              WithFields(ColBase, [is_nullable |-> PyBool(TRUE)]),
              WithFields(ColBase, [is_nullable |-> PyNone]),
              WithFields(ColBase, [data_type |-> PyStr(Upper(TypeInt)),
                                   ordinal_position |-> PyInt(2)]),
              WithFields(ColBase, [is_identity |-> PyBool(TRUE), identity_seed |-> PyInt(1),
                                   identity_increment |-> PyInt(1)]),
              WithFields(ColBase, [name |-> <<ChB>>, data_type |-> PyStr(TypeChar),
                                   max_length |-> PyInt(5),
                                   is_nullable |-> PyStr(<<32, 121>>)]),
              WithFields(ColBase, [name |-> <<>>]) }
    IN
        UNION {[1 .. n -> ColumnRecs] : n \in 0 .. MaxCols}

InitColumns ==
    /\ pc = "cols_start"
    /\ source_table \in {[columns |-> l] : l \in ColumnLists}
    /\ target_table \in {[columns |-> l] : l \in ColumnLists}
    /\ added = <<>>
    /\ removed = <<>>
    /\ changed = <<>>
    /\ CompareIdle
    /\ DiffIdle
    /\ OrdIdle
    /\ GenIdle

\* added, removed, changed = self._compare_columns(source_table, target_table)
CompareColumnsCall ==
    /\ pc = "cols_start"
    /\ LET r == CompareColumns(source_table, target_table)
       IN  /\ added' = r.added
           /\ removed' = r.removed
           /\ changed' = r.changed
    /\ pc' = "cols_done"
    /\ UNCHANGED <<source_table, target_table, cmpVars, diffVars, ordVars, genVars>>

NextColumns == CompareColumnsCall

SpecColumns == InitColumns /\ [][NextColumns]_vars

---------------------------------------------------------------------------
(* Properties of the column comparison                                     *)

\* The records of a column list that carry the name n.
Named(cols, n) == {i \in DOMAIN cols : DictGet(cols[i], "name", <<>>) = n}

\* The names carried by exactly one record on each side.
SharedNames ==
    {n \in {DictGet(source_table.columns[i], "name", <<>>) :
                i \in DOMAIN source_table.columns} \ {<<>>} :
        /\ Cardinality(Named(source_table.columns, n)) = 1
        /\ Cardinality(Named(target_table.columns, n)) = 1}

SourceCol(n) == source_table.columns[CHOOSE i \in Named(source_table.columns, n) : TRUE]

TargetCol(n) == target_table.columns[CHOOSE i \in Named(target_table.columns, n) : TRUE]

\* Some tracked field of the two records differs: normalised data type, max
\* length, precision, scale, nullability, default text, identity flag (and
\* seed and increment of an identity column), computed flag (and definition
\* and persisted of a computed column), collation, sparse, rowguidcol.
TrackedFieldsDiffer(s, t) ==
    LET f(c, k, d) == DictGet(c, k, d)
        differs(k, d) == ~PyEq(f(s, k, d), f(t, k, d))
        under(flag, k, d) ==
            ~PyEq(IF PyTruthy(f(s, flag, PyNone)) THEN f(s, k, d) ELSE PyNone,
                  IF PyTruthy(f(t, flag, PyNone)) THEN f(t, k, d) ELSE PyNone)
    IN  \/ DataTypeOf(s) # DataTypeOf(t)
        \/ differs("max_length", PyNone)
        \/ differs("precision", PyNone)
        \/ differs("scale", PyNone)
        \/ IsNullable(s) # IsNullable(t)
        \/ (f(s, "default_value", PyNone) = PyNone) # (f(t, "default_value", PyNone) = PyNone)
        \/ PyFormat(f(s, "default_value", PyNone)) # PyFormat(f(t, "default_value", PyNone))
        \/ differs("is_identity", PyBool(FALSE))
        \/ under("is_identity", "identity_seed", PyNone)
        \/ under("is_identity", "identity_increment", PyNone)
        \/ differs("is_computed", PyBool(FALSE))
        \/ under("is_computed", "computed_definition", PyNone)
        \/ under("is_computed", "is_persisted", PyBool(FALSE))
        \/ differs("collation", PyNone)
        \/ differs("is_sparse", PyBool(FALSE))
        \/ differs("is_rowguidcol", PyBool(FALSE))

\* The two records are equal but for the field is_nullable, and one column
\* is nullable while the other is not.
DifferInNullabilityOnly(s, t) ==
    /\ DOMAIN s = DOMAIN t
    /\ \A k \in DOMAIN s \ {"is_nullable"} : s[k] = t[k]
    /\ IsNullable(s) # IsNullable(t)

InChanged(s, t) == \E i \in DOMAIN changed : changed[i] = <<s, t>>

\* C16: a column present in both tables is in `changed` exactly when a
\* tracked field differs; two records that differ only in nullability are
\* changed; two records equal in every tracked field are in none of added,
\* removed and changed.
C16_ChangedIffSignatureDiffers ==
    pc = "cols_done" =>
        \A n \in SharedNames :
            LET s == SourceCol(n)
                t == TargetCol(n)
            IN  /\ InChanged(s, t) <=> TrackedFieldsDiffer(s, t)
                /\ DifferInNullabilityOnly(s, t) => InChanged(s, t)
                /\ ~TrackedFieldsDiffer(s, t) =>
                       /\ s \notin Range(added)
                       /\ t \notin Range(removed)
                       /\ \A i \in DOMAIN changed :
                              changed[i][1] # s /\ changed[i][2] # t

\* One table pair shows both cases: column "a" differs only in nullability
\* and is changed; column "b" is equal in every tracked field and is left out.
C16_Witness ==
    /\ pc = "cols_done"
    /\ Len(source_table.columns) = 2
    /\ Len(target_table.columns) = 2
    /\ SharedNames = {<<ChA>>, <<ChB>>}
    /\ DifferInNullabilityOnly(SourceCol(<<ChA>>), TargetCol(<<ChA>>))
    /\ changed = << <<SourceCol(<<ChA>>), TargetCol(<<ChA>>)>> >>
    /\ added = <<>>
    /\ removed = <<>>

---------------------------------------------------------------------------
(* Inputs of the orderer: the comparison result of two snapshots holding   *)
(* programmable objects.                                                   *)

\* The most programmable objects in the two snapshots together.
MaxItems == 3

\* The target-side definition of every object the target holds.
TgtDef == <<ChX>>

Assignments ==
    LET \* The (obj_type, name) pairs an object may have.
        Slots ==
            { <<"functions", <<ChA>>>>, <<"functions", <<ChB>>>>, <<"views", <<ChUpperB>>>>,
              <<"procedures", <<ChC>>>>, <<"triggers", <<ChA>>>>, <<"triggers", <<>>>> }
    IN
        LET \* What the two snapshots hold for one object.
            Kinds ==
                LET MitDefs == {<<>>, <<ChUpperB>>}
                IN
                    LET \* Source definitions of objects on both sides / on the source side only.
                        DiffDefs == {<<>>, <<ChA>>, <<ChUpperB>>, <<ChC>>, <<ChUpperB, ChC>>}
                    IN
                        {[src |-> [definition |-> d], tgt |-> [definition |-> TgtDef]] : d \in DiffDefs}
                        \cup {[src |-> [definition |-> d], tgt |-> NoneVal] : d \in MitDefs}
                        \cup {[src |-> [definition |-> TgtDef], tgt |-> [definition |-> TgtDef]]}
                        \cup {[src |-> NoneVal, tgt |-> [definition |-> TgtDef]]}
        IN
            UNION {[P -> Kinds] : P \in {Q \in SUBSET Slots : Cardinality(Q) <= MaxItems}}

SnapshotOf(assign, side) ==
    LET held == {sl \in DOMAIN assign : assign[sl][side] # NoneVal}
    IN  [t \in {sl[1] : sl \in held} |->
            [n \in {sl[2] : sl \in {h \in held : h[1] = t}} |-> assign[<<t, n>>][side]]]

---------------------------------------------------------------------------
(* The orderer's steps: collect the nodes and the graph, pop the queue     *)
(* until it is empty, then append what is left and build the result.       *)

InitOrder ==
    /\ pc = "ord_start"
    /\ \E assign \in Assignments :
           results = CompareResult(SnapshotOf(assign, "src"), SnapshotOf(assign, "tgt"))
    /\ source = EmptyDict
    /\ target = EmptyDict
    /\ summary = EmptyDict
    /\ DiffIdle
    /\ OrdIdle
    /\ ColIdle
    /\ GenIdle

\* Lines 896-938: node_by_name, names, the graph and the initial queue.
OrdCollect ==
    /\ pc = "ord_start"
    /\ \E nodes \in {NodeByName(Candidates(results))} :
       \E ns \in {KeysInOrder(Candidates(results), {})} :
       \E adj \in {AdjacencyOf(nodes)} :
       \E indeg \in {IndegreeOf(adj)} :
           /\ node_by_name' = nodes
           /\ names' = ns
           /\ IF DOMAIN nodes = {}
              THEN /\ pc' = "ord_done"
                   /\ UNCHANGED <<adjacency, indegree, queue>>
              ELSE /\ pc' = "ord_sorting"
                   /\ adjacency' = adj
                   /\ indegree' = indeg
                   /\ queue' = SelectSeq(ns, LAMBDA n : indeg[n] = 0)
    /\ UNCHANGED <<ordered_keys, ordered_items, cmpVars, diffVars, colVars, genVars>>

\* One iteration of `while queue` (lines 940-946).
OrdPop ==
    /\ pc = "ord_sorting"
    /\ queue # <<>>
    /\ LET node == Head(queue)
       IN  /\ ordered_keys' = Append(ordered_keys, node)
           /\ \E deps \in Orderings(adjacency[node]) :
                  LET r == Relax(indegree, Tail(queue), deps)
                  IN  indegree' = r[1] /\ queue' = r[2]
    /\ UNCHANGED <<pc, names, node_by_name, adjacency, ordered_items, cmpVars, diffVars, colVars, genVars>>

\* Lines 948-963: the fallback for unordered keys and the result list.
OrdFinish ==
    /\ pc = "ord_sorting"
    /\ queue = <<>>
    /\ LET keys == IF Len(ordered_keys) < Len(names)
                   THEN ordered_keys \o Remaining(names, ordered_keys)
                   ELSE ordered_keys
       IN  /\ ordered_keys' = keys
           /\ ordered_items' =
                  [i \in DOMAIN keys |->
                      <<node_by_name[keys[i]][1], <<node_by_name[keys[i]][2]>>>>]
    /\ pc' = "ord_done"
    /\ UNCHANGED <<names, node_by_name, adjacency, indegree, queue, cmpVars, diffVars, colVars, genVars>>

NextOrder == OrdCollect \/ OrdPop \/ OrdFinish

SpecOrder == InitOrder /\ [][NextOrder]_vars

\* The inputs all of whose objects become nodes of the graph: each is held
\* by the source and differs from what the target holds.
GraphAssignments ==
    {assign \in Assignments :
        \A sl \in DOMAIN assign : assign[sl].src # NoneVal /\ assign[sl].src # assign[sl].tgt}

InitOrderRuns ==
    /\ pc = "ord_start"
    /\ \E assign \in GraphAssignments :
           results = CompareResult(SnapshotOf(assign, "src"), SnapshotOf(assign, "tgt"))
    /\ source = EmptyDict
    /\ target = EmptyDict
    /\ summary = EmptyDict
    /\ DiffIdle
    /\ OrdIdle
    /\ ColIdle
    /\ GenIdle

\* The call keeps running: an iteration of `while queue` that can be taken
\* is taken, and so is the step after the loop.
SpecOrderRuns ==
    InitOrderRuns /\ [][NextOrder]_vars /\ WF_vars(OrdPop) /\ WF_vars(OrdFinish)

---------------------------------------------------------------------------
(* Properties of the orderer                                               *)

\* The source-side definition of an item that requires scripting: details
\* itself for MISSING_IN_TARGET, details.source for DIFFERENT.
SourceDefinition(item) ==
    IF item.status = "MISSING_IN_TARGET" THEN item.details.definition
    ELSE item.details.source.definition

\* The source definition of x contains the qualified name of y,
\* case-insensitively.
Mentions(x, y) == Contains(Lower(SourceDefinition(x)), Lower(y.name))

\* The keys reachable from the keys S along adjacency, in at most n steps.
RECURSIVE ReachIn(_, _)
ReachIn(S, n) ==
    IF n = 0 THEN S
    ELSE ReachIn(S \cup UNION {adjacency[k] : k \in S}, n - 1)

\* No key depends on itself through other keys.
Acyclic ==
    \A k \in DOMAIN adjacency : k \notin ReachIn(adjacency[k], Len(names))

\* C1 (as claimed, on the graphs without a cycle, where the sort orders
\* every key): in the returned order, when the source definition of an item
\* A contains the qualified name of an item B (case-insensitively) and B's
\* definition does not mention A, B is placed before A.
C1_DependencyBeforeDependent ==
    (pc = "ord_done" /\ Acyclic) =>
        \A i, j \in DOMAIN ordered_items :
            LET A == ordered_items[i][2][1]
                B == ordered_items[j][2][1]
            IN  (i # j /\ Mentions(A, B) /\ ~Mentions(B, A)) => j < i

---------------------------------------------------------------------------
(* Inputs of the script generator: the comparison result of two snapshots, *)
(* the source snapshot as source_metadata, and the deployment options.     *)

\* The most objects in the two snapshots together when the options are few.
MaxGenObjs == 2

\* Qualified names: "a.b" (one separator) and "c" (none).
NameAB == <<ChA, Dot, ChB>>

NameC == <<ChC>>

TableRec(columns, pk, indexes, fks) ==
    [columns |-> columns, indexes |-> indexes, primary_key |-> pk, foreign_keys |-> fks]

TableOne == TableRec(<<ColBase>>, NoneVal, <<>>, <<>>)

TableTwo ==
    LET ColB ==
            WithFields(ColBase, [name |-> <<ChB>>, data_type |-> PyStr(TypeChar),
                                 max_length |-> PyInt(5), is_nullable |-> PyBool(TRUE)])
    IN
        TableRec(<<ColBase, ColB>>, NoneVal, <<>>, <<>>)

TableNullable ==
    TableRec(<<WithFields(ColBase, [is_nullable |-> PyBool(TRUE)])>>, NoneVal, <<>>, <<>>)

\* No columns, a primary key and an index without columns.
TableNoColumns ==
    TableRec(<<>>, [name |-> <<ChX>>, columns |-> <<>>],
             <<[name |-> <<ChX>>, columns |-> <<>>, is_primary_key |-> FALSE]>>, <<>>)

\* A primary key, the index that backs it, and a foreign key.
TableKeys ==
    TableRec(<<ColBase>>, [name |-> <<ChX>>, columns |-> <<<<ChA>>>>],
             <<[name |-> <<ChX>>, columns |-> <<<<ChA>>>>, is_primary_key |-> TRUE]>>,
             <<[name |-> <<ChC>>, columns |-> <<<<ChA>>>>, referenced_table |-> NameAB,
                referenced_columns |-> <<<<ChB>>>>, delete_rule |-> NoAction,
                update_rule |-> NoAction]>>)

Obj(type, name, src, tgt) == [type |-> type, name |-> name, src |-> src, tgt |-> tgt]

Def(d) == [definition |-> d]

\* The objects a scenario is made of: what the two snapshots hold under one
\* (category, name).
ObjectPool ==
    LET \* "a" as an identity column, and as a computed column.
        TableIdentity ==
            TableRec(<<WithFields(ColBase, [is_identity |-> PyBool(TRUE),
                                            identity_seed |-> PyInt(1),
                                            identity_increment |-> PyInt(1)])>>,
                     NoneVal, <<>>, <<>>)
        TableComputed ==
            TableRec(<<WithFields(ColBase, [is_computed |-> PyBool(TRUE),
                                            computed_definition |-> PyStr(<<ChX>>)])>>,
                     NoneVal, <<>>, <<>>)
        \* TableKeys with a second index, which backs no key.
        TableIndexed ==
            TableRec(TableKeys.columns, TableKeys.primary_key,
                     TableKeys.indexes
                         \o <<[name |-> <<ChB>>, columns |-> <<<<ChA>>>>, is_primary_key |-> FALSE]>>,
                     TableKeys.foreign_keys)
    IN
    { Obj("tables", NameAB, TableTwo, NoneVal),
      Obj("tables", NameAB, TableIndexed, TableOne),
      Obj("tables", NameC, TableIndexed, NoneVal),
      Obj("tables", NameC, TableNoColumns, NoneVal),
      Obj("tables", NameAB, TableIndexed, TableKeys),
      Obj("tables", NameC, NoneVal, TableKeys),
      Obj("tables", NameC, TableKeys, TableKeys),
      Obj("tables", NameAB, TableIdentity, TableNullable),
      Obj("tables", NameAB, TableComputed, TableTwo),
      Obj("tables", NameAB, TableNoColumns, NoneVal),
      Obj("tables", NameAB, TableKeys, NoneVal),
      Obj("tables", NameAB, TableOne, TableNullable),
      Obj("tables", NameAB, TableTwo, TableOne),
      Obj("tables", NameAB, TableOne, TableKeys),
      Obj("tables", NameAB, NoneVal, TableOne),
      Obj("tables", NameAB, EmptyDict, NoneVal),
      Obj("tables", NameC, TableOne, NoneVal),
      Obj("tables", NameC, TableOne, TableNullable),
      Obj("views", <<ChUpperB>>, Def(<<ChX>>), NoneVal),
      Obj("views", <<ChUpperB>>, NoneVal, Def(TgtDef)),
      Obj("triggers", <<ChA>>, NoneVal, Def(TgtDef)),
      Obj("functions", <<ChB>>, NoneVal, Def(TgtDef)),
      Obj("procedures", NameC, NoneVal, Def(TgtDef)),
      Obj("functions", <<ChB>>, Def(<<ChA>>), NoneVal),
      Obj("procedures", NameC, Def(<<ChUpperB>>), Def(TgtDef)),
      Obj("procedures", NameC, Def(<<ChA>>), NoneVal),
      Obj("triggers", <<ChA>>, Def(<<>>), Def(TgtDef)),
      Obj("triggers", <<ChA>>, Def(<<ChC>>), Def(TgtDef)),
      Obj("synonyms", NameAB, [base_object_name |-> <<ChX>>], NoneVal),
      Obj("synonyms", NameAB, [base_object_name |-> <<>>], NoneVal),
      Obj("synonyms", NameC, NoneVal, [base_object_name |-> <<ChX>>]),
      Obj("unique_constraints", NameAB, [columns |-> <<<<ChA>>>>], NoneVal),
      Obj("unique_constraints", NameC, [columns |-> <<>>], NoneVal),
      Obj("check_constraints", NameAB, Def(<<ChX>>), NoneVal),
      Obj("default_constraints", NameC, [column |-> <<ChA>>, definition |-> <<ChX>>], NoneVal) }

\* The sets of at most n objects, no two under the same (category, name).
RECURSIVE Scenarios(_)
Scenarios(n) ==
    IF n = 0 THEN {{}}
    ELSE LET fewer == Scenarios(n - 1)
             fits == {p \in fewer \X ObjectPool :
                         \A o \in p[1] : (o.type = p[2].type /\ o.name = p[2].name) => o = p[2]}
         IN  fewer \cup {p[1] \cup {p[2]} : p \in fits}

\* The snapshot of one side of a scenario.
ScenarioSnapshot(sc, side) ==
    LET held == {o \in sc : o[side] # NoneVal}
    IN  [t \in {o.type : o \in held} |->
            [n \in {o.name : o \in {h \in held : h.type = t}} |->
                (CHOOSE o \in held : o.type = t /\ o.name = n)[side]]]

InitGenerate ==
    LET \* All defaults, and the defaults without the drop phase.
        FewOptionInputs == {NoneVal, [include_drop_phase |-> FALSE]}
    IN
        LET \* Every choice of the seven booleans, no options at all, and one option
            \* given alone.
            AllOptionInputs ==
                {NoneVal, EmptyDict}
                \cup [OptionKeys -> BOOLEAN]
                \cup UNION {[{k} -> BOOLEAN] : k \in OptionKeys}
        IN
            /\ pc = "gen_new"
            /\ \E sc \in Scenarios(MaxGenObjs) :
                   /\ source_metadata = ScenarioSnapshot(sc, "src")
                   /\ results = CompareResult(ScenarioSnapshot(sc, "src"), ScenarioSnapshot(sc, "tgt"))
                   /\ \/ deploy_options_in \in FewOptionInputs
                      \/ Cardinality(sc) <= 1 /\ deploy_options_in \in AllOptionInputs
            /\ deploy_options = EmptyDict
            /\ lines = <<>>
            /\ line_phase = <<>>
            /\ script = <<>>
            /\ source = EmptyDict
            /\ target = EmptyDict
            /\ summary = EmptyDict
            /\ DiffIdle
            /\ OrdIdle
            /\ ColIdle

---------------------------------------------------------------------------
(* The script generator's steps: __init__, then generate() statement by    *)
(* statement.  A phase that raises ends the call at "gen_raised".          *)

\* n times the label p
Labels(n, p) == [i \in 1 .. n |-> p]

\* ScriptGenerator.__init__
GenConstruct ==
    /\ pc = "gen_new"
    /\ deploy_options' = MergedOptions(deploy_options_in)
    /\ pc' = "gen_ready"
    /\ UNCHANGED <<deploy_options_in, source_metadata, lines, line_phase, script,
                   cmpVars, diffVars, ordVars, colVars>>

\* lines.extend(more) by the step `phase`, then on to `next`
Extend(more, phase, next) ==
    /\ lines' = lines \o more
    /\ line_phase' = line_phase \o Labels(Len(more), phase)
    /\ pc' = next

Skip(next) ==
    /\ pc' = next
    /\ UNCHANGED <<lines, line_phase>>

\* Lines 181-202: the preamble and the opening of the transaction.
GenPreamble ==
    /\ pc = "gen_ready"
    /\ lines' = Preamble \o (IF Option("wrap_in_transaction")
                             THEN <<Lit("BEGIN TRANSACTION;"), Blank>> ELSE <<>>)
    /\ line_phase' = Labels(Len(Preamble), "preamble")
                       \o (IF Option("wrap_in_transaction") THEN Labels(2, "begin") ELSE <<>>)
    /\ pc' = "gen_drop"
    /\ UNCHANGED <<deploy_options_in, deploy_options, source_metadata, script,
                   cmpVars, diffVars, ordVars, colVars>>

\* Lines 205-206
GenDropPhase ==
    /\ pc = "gen_drop"
    /\ IF ~Option("include_drop_phase") THEN Skip("gen_table")
       ELSE IF DropPhaseRaises(results) THEN Skip("gen_raised")
       ELSE Extend(GenerateDropPhase(results), "drop", "gen_table")
    /\ UNCHANGED <<deploy_options_in, deploy_options, source_metadata, script,
                   cmpVars, diffVars, ordVars, colVars>>

\* Lines 209-210
GenTablePhase ==
    /\ pc = "gen_table"
    /\ IF ~Option("include_table_phase") THEN Skip("gen_constraint")
       ELSE Extend(GenerateTablePhase(results, source_metadata), "table", "gen_constraint")
    /\ UNCHANGED <<deploy_options_in, deploy_options, source_metadata, script,
                   cmpVars, diffVars, ordVars, colVars>>

\* Lines 213-214
GenConstraintPhase ==
    /\ pc = "gen_constraint"
    /\ IF ~Option("include_constraint_phase") THEN Skip("gen_programmability")
       ELSE IF ConstraintPhaseRaises(results) THEN Skip("gen_raised")
       ELSE Extend(GenerateConstraintPhase(results), "constraint", "gen_programmability")
    /\ UNCHANGED <<deploy_options_in, deploy_options, source_metadata, script,
                   cmpVars, diffVars, ordVars, colVars>>

\* Lines 217-218 and 432: the programmability phase starts by calling
\* _ordered_programmability_items(), whose steps are OrdCollect, OrdPop and
\* OrdFinish.
GenProgrammabilityCall ==
    /\ pc = "gen_programmability"
    /\ pc' = IF Option("include_programmability_phase") THEN "ord_start" ELSE "gen_misc"
    /\ UNCHANGED <<genVars, cmpVars, diffVars, ordVars, colVars>>

\* Lines 425-441, once the ordered items are known.
GenProgrammabilityPhase ==
    /\ pc = "ord_done"
    /\ IF ProgrammabilityPhaseRaises(ordered_items) THEN Skip("gen_raised")
       ELSE Extend(GenerateProgrammabilityPhase(ordered_items), "programmability", "gen_misc")
    /\ UNCHANGED <<deploy_options_in, deploy_options, source_metadata, script,
                   cmpVars, diffVars, ordVars, colVars>>

GenMiscPhaseMutPrepend ==
    /\ pc = "gen_misc"
    /\ IF ~Option("include_misc_phase") THEN Skip("gen_close")
       ELSE /\ lines' = GenerateMiscPhase(results) \o lines
            /\ line_phase' = Labels(Len(GenerateMiscPhase(results)), "misc") \o line_phase
            /\ pc' = "gen_close"
    /\ UNCHANGED <<deploy_options_in, deploy_options, source_metadata, script,
                   cmpVars, diffVars, ordVars, colVars>>

\* Lines 221-222
GenMiscPhase ==
    /\ pc = "gen_misc"
    /\ IF ~Option("include_misc_phase") THEN Skip("gen_close")
       ELSE Extend(GenerateMiscPhase(results), "misc", "gen_close")
    /\ UNCHANGED <<deploy_options_in, deploy_options, source_metadata, script,
                   cmpVars, diffVars, ordVars, colVars>>

GenCloseMutAlwaysCommit ==
    /\ pc = "gen_close"
    /\ Extend(<< Blank, Lit("COMMIT TRANSACTION;"),
                 Lit("PRINT 'Deployment completed successfully.';"), Go >>,
              "close", "gen_rollback")
    /\ UNCHANGED <<deploy_options_in, deploy_options, source_metadata, script,
                   cmpVars, diffVars, ordVars, colVars>>

\* Lines 224-236: the commit, or the note that nothing was wrapped.
GenClose ==
    /\ pc = "gen_close"
    /\ IF Option("wrap_in_transaction")
       THEN Extend(<< Blank, Lit("COMMIT TRANSACTION;"),
                      Lit("PRINT 'Deployment completed successfully.';"), Go >>,
                   "close", "gen_rollback")
       ELSE Extend(<< Blank,
                      Lit("PRINT 'Deployment script generation completed (no transaction wrapping).';"),
                      Go >>,
                   "close", "gen_rollback")
    /\ UNCHANGED <<deploy_options_in, deploy_options, source_metadata, script,
                   cmpVars, diffVars, ordVars, colVars>>

GenReturnMutRollbackFirst ==
    /\ pc = "gen_rollback"
    /\ LET rollback_lines == IF Option("include_rollback_section")
                             THEN GenerateRollback(results) ELSE <<>>
       IN  script' = (IF rollback_lines # <<>>
                      THEN rollback_lines \o <<Blank, Blank>> ELSE <<>>) \o lines
    /\ pc' = "gen_done"
    /\ UNCHANGED <<deploy_options_in, deploy_options, source_metadata, lines, line_phase,
                   cmpVars, diffVars, ordVars, colVars>>

\* Lines 240-244: the rollback section and the joined result.
GenReturn ==
    /\ pc = "gen_rollback"
    /\ LET rollback_lines == IF Option("include_rollback_section")
                             THEN GenerateRollback(results) ELSE <<>>
       IN  script' = lines \o (IF rollback_lines # <<>>
                               THEN <<Blank, Blank>> \o rollback_lines ELSE <<>>)
    /\ pc' = "gen_done"
    /\ UNCHANGED <<deploy_options_in, deploy_options, source_metadata, lines, line_phase,
                   cmpVars, diffVars, ordVars, colVars>>

NextGenerate ==
    \/ GenConstruct
    \/ GenPreamble
    \/ GenDropPhase
    \/ GenTablePhase
    \/ GenConstraintPhase
    \/ GenProgrammabilityCall
    \/ OrdCollect
    \/ OrdPop
    \/ OrdFinish
    \/ GenProgrammabilityPhase
    \/ GenMiscPhase
    \/ GenClose
    \/ GenReturn

SpecGenerate == InitGenerate /\ [][NextGenerate]_vars

\* The keys on a cycle of the graph, and the keys on or behind one: those
\* the sort can never bring to in-degree zero.
OnCycle == {k \in DOMAIN adjacency : k \in ReachIn(adjacency[k], Len(names))}

Stuck == UNION {ReachIn({c}, Len(names)) : c \in OnCycle}

\* The place of a key in the returned order.
PlaceOf(k) == CHOOSE i \in DOMAIN ordered_keys : ordered_keys[i] = k

\* The place at which the two loops over the result first meet a key.
FirstSeen(k) ==
    LET cands == Candidates(results)
    IN  CHOOSE i \in DOMAIN cands :
            /\ Lower(cands[i][2].name) = k
            /\ \A j \in 1 .. (i - 1) : Lower(cands[j][2].name) # k

\* No lookup of the sort fails: every key in the queue and every edge's
\* end is a key of adjacency, indegree and node_by_name.
LookupsDefined ==
    pc = "ord_sorting" =>
        /\ \A i \in DOMAIN queue : queue[i] \in DOMAIN adjacency
        /\ DOMAIN adjacency = DOMAIN indegree
        /\ DOMAIN adjacency = DOMAIN node_by_name
        /\ \A k \in DOMAIN adjacency : adjacency[k] \subseteq DOMAIN indegree

\* The returned order holds every key once, the keys on or behind a cycle
\* after all the others and in the order in which they were first met.
FallbackOrder ==
    pc = "ord_done" =>
        /\ Len(ordered_keys) = Cardinality(DOMAIN node_by_name)
        /\ \A k \in DOMAIN node_by_name : \E i \in DOMAIN ordered_keys : ordered_keys[i] = k
        /\ \A k \in Stuck : \A m \in DOMAIN adjacency \ Stuck : PlaceOf(m) < PlaceOf(k)
        /\ \A k \in Stuck : \A m \in Stuck :
               FirstSeen(k) < FirstSeen(m) => PlaceOf(k) < PlaceOf(m)

\* C21: for every graph, with or without a cycle, the sort that has built
\* its graph reaches the end of the call, no lookup in it fails, and the
\* keys the sort cannot order come after the sorted ones in the order in
\* which they were first met.
C21_EndsWithFallbackOrder ==
    /\ (pc = "ord_sorting") ~> (pc = "ord_done")
    /\ [](LookupsDefined /\ FallbackOrder)

\* A graph with a cycle of two keys and a third key outside it: the third
\* is first, the two follow in the order in which they were met.
C21_Witness ==
    /\ pc = "ord_done"
    /\ Cardinality(OnCycle) = 2
    /\ Cardinality(DOMAIN adjacency \ Stuck) = 1
    /\ \A k \in Stuck : PlaceOf(k) > 1

---------------------------------------------------------------------------
(* Properties of the script generator                                      *)

\* The option the caller asked for: the value given, true when not given.
Asked(key) ==
    IF deploy_options_in # NoneVal /\ key \in DOMAIN deploy_options_in
    THEN deploy_options_in[key]
    ELSE TRUE

PhaseOption ==
    << "include_drop_phase", "include_table_phase", "include_constraint_phase",
       "include_programmability_phase", "include_misc_phase" >>

PhaseHeader ==
    << Lit("-- PHASE 1: DROP EXTRA OBJECTS (MISSING_IN_SOURCE)"),
       Lit("-- PHASE 2: TABLES AND COLUMNS"),
       Lit("-- PHASE 3: CONSTRAINTS AND INDEXES"),
       Lit("-- PHASE 4: PROGRAMMABILITY OBJECTS"),
       Lit("-- PHASE 5: MISCELLANEOUS OBJECTS") >>

RollbackHeader == Lit("-- ROLLBACK SCRIPT (Generated)")

BeginMarker == Lit("BEGIN TRANSACTION;")

CommitMarker == Lit("COMMIT TRANSACTION;")

NoWrapNote ==
    Lit("PRINT 'Deployment script generation completed (no transaction wrapping).';")

\* The positions of a line in the returned script.
At(line) == {i \in DOMAIN script : script[i] = line}

\* C12: the returned script holds the header of phase k exactly when the
\* caller asked for phase k (an option not given counts as true), and the
\* rollback header exactly when the caller asked for the rollback section.
C12_HeadersFollowOptions ==
    pc = "gen_done" =>
        /\ \A k \in 1 .. 5 : (At(PhaseHeader[k]) # {}) <=> Asked(PhaseOption[k])
        /\ (At(RollbackHeader) # {}) <=> Asked("include_rollback_section")

\* Only the misc phase is turned off, by an option given alone: the other
\* four headers and the rollback header are there, the fifth is not.
C12_Witness ==
    /\ pc = "gen_done"
    /\ deploy_options_in = [include_misc_phase |-> FALSE]
    /\ \A k \in 1 .. 4 : At(PhaseHeader[k]) # {}
    /\ At(PhaseHeader[5]) = {}
    /\ At(RollbackHeader) # {}

\* The forward script: the part of the returned script before the rollback
\* header.
ForwardEnd ==
    IF At(RollbackHeader) = {} THEN Len(script)
    ELSE (CHOOSE i \in At(RollbackHeader) : \A j \in At(RollbackHeader) : i <= j) - 1

InForward(line) == {i \in At(line) : i <= ForwardEnd}

\* The positions of the lines the five phases added.
PhaseContent ==
    {i \in DOMAIN line_phase :
        line_phase[i] \in {"drop", "table", "constraint", "programmability", "misc"}}

\* C13: with wrap_in_transaction the forward script holds the transaction
\* begin before all phase content and the commit after it; without it, the
\* forward script holds neither marker and holds the no-wrapping note.  The
\* markers are the generator's own lines; text copied from the objects is
\* not one.
C13_TransactionMarkers ==
    pc = "gen_done" =>
        IF Asked("wrap_in_transaction")
        THEN /\ \E b \in InForward(BeginMarker) : \A i \in PhaseContent : b < i
             /\ \E c \in InForward(CommitMarker) : \A i \in PhaseContent : i < c
             /\ InForward(NoWrapNote) = {}
        ELSE /\ InForward(BeginMarker) = {}
             /\ InForward(CommitMarker) = {}
             /\ InForward(NoWrapNote) # {}

\* Wrapping is turned off and the rollback section is kept: the rollback
\* section holds both markers, the forward script neither.
C13_Witness ==
    /\ pc = "gen_done"
    /\ deploy_options_in = [wrap_in_transaction |-> FALSE]
    /\ PhaseContent # {}
    /\ At(BeginMarker) # {}
    /\ At(CommitMarker) # {}
    /\ InForward(BeginMarker) = {}
    /\ InForward(NoWrapNote) # {}

\* The items of one category of the comparison result with one status.
ResultItems(obj_type, st) ==
    LET items == DictGet(results, obj_type, <<>>)
    IN  {items[i] : i \in {j \in DOMAIN items : items[j].status = st}}

\* The columns the source snapshot holds for a table.
SourceColumns(name) ==
    LET tables == DictGet(source_metadata, "tables", EmptyDict)
    IN  IF name \in DOMAIN tables THEN DictGet(tables[name], "columns", <<>>) ELSE <<>>

\* The table phase created table `name` with the columns `cols`: a CREATE
\* TABLE line for that name, followed by one definition per column, in the
\* order of `cols`, and the closing bracket.
CreatesTable(name, cols) ==
    \E i \in DOMAIN line_phase :
        /\ line_phase[i] = "table"
        /\ script[i].fmt = "CREATE TABLE {} ("
        /\ script[i].vals = <<name>>
        /\ Len(script[i + 1].vals) = Len(cols)
        /\ \A j \in DOMAIN cols :
               /\ script[i + 1].vals[j] = FormatFullColumnDefinition(cols[j])
               /\ script[i + 1].vals[j][1] = Text("[{}]", <<cols[j].name>>)
        /\ script[i + 2] = Lit(");")

\* C14: when the table phase runs, every table reported MISSING_IN_TARGET
\* for which the source snapshot holds at least one column gets a CREATE
\* TABLE statement with one column definition per source column, in the
\* source's column order.
C14_CreateTablePerColumn ==
    (pc = "gen_done" /\ Asked("include_table_phase")) =>
        \A item \in ResultItems("tables", "MISSING_IN_TARGET") :
            SourceColumns(item.name) # <<>> =>
                CreatesTable(item.name, SourceColumns(item.name))

\* A table with two columns is created, the columns in the source's order.
C14_Witness ==
    /\ pc = "gen_done"
    /\ \E item \in ResultItems("tables", "MISSING_IN_TARGET") :
           /\ Len(SourceColumns(item.name)) = 2
           /\ SourceColumns(item.name)[1].name # SourceColumns(item.name)[2].name
           /\ CreatesTable(item.name, SourceColumns(item.name))

\* A step of generate() wrote a line with this text and these values.
HasLine(phase, fmt, vals) ==
    \E i \in DOMAIN line_phase :
        line_phase[i] = phase /\ script[i].fmt = fmt /\ script[i].vals = vals

\* A step of generate() wrote a line that names `name`.
HasLineNaming(phase, name) ==
    \E i \in DOMAIN line_phase :
        /\ line_phase[i] = phase
        /\ \E k \in DOMAIN script[i].vals : script[i].vals[k] = name

\* The source-side record of a result item: details itself for a
\* MISSING_IN_TARGET item, details.source for a DIFFERENT one.
SourceRecord(item) ==
    IF item.status = "MISSING_IN_TARGET" THEN item.details
    ELSE DictGet(item.details, "source", EmptyDict)

ProgrammabilityTypes == {"functions", "views", "procedures", "triggers"}

\* The programmability phase wrote the definition, and GO on the next line.
EmitsDefinition(definition) ==
    \E i \in DOMAIN line_phase :
        /\ line_phase[i] = "programmability"
        /\ script[i] = Text("{}", <<definition>>)
        /\ script[i + 1] = Go

\* C15: when the programmability phase runs, every function, view, procedure
\* or trigger reported MISSING_IN_TARGET or DIFFERENT whose source-side
\* record holds a non-empty definition has that definition in the script,
\* followed at once by GO.
C15_DefinitionThenGo ==
    (pc = "gen_done" /\ Asked("include_programmability_phase")) =>
        \A t \in ProgrammabilityTypes :
            \A item \in ResultItems(t, "MISSING_IN_TARGET") \cup ResultItems(t, "DIFFERENT") :
                (SourceRecord(item) # NoneVal
                 /\ DictGet(SourceRecord(item), "definition", <<>>) # <<>>)
                    => EmitsDefinition(SourceRecord(item).definition)

\* The objects with a gap get their placeholder line, and a table with
\* columns is created whatever else the result holds.
GapsGetPlaceholders ==
    /\ (pc = "gen_done" /\ Asked("include_table_phase")) =>
           /\ \A item \in ResultItems("tables", "MISSING_IN_TARGET") :
                  IF SourceColumns(item.name) = <<>>
                  THEN HasLine("table",
                               "-- TODO: CREATE TABLE {} (no column metadata available)",
                               <<item.name>>)
                  ELSE CreatesTable(item.name, SourceColumns(item.name))
           /\ \A item \in ResultItems("tables", "DIFFERENT") :
                  SplitCount(item.name) # 2 =>
                      HasLine("table", "-- Unable to ALTER TABLE {} (invalid name format)",
                              <<item.name>>)
    /\ (pc = "gen_done" /\ Asked("include_constraint_phase")) =>
           /\ \A item \in ResultItems("unique_constraints", "MISSING_IN_TARGET") :
                  (DictGet(item.details, "columns", <<>>) = <<>> \/ ~HasDot(item.name)) =>
                      \/ HasLine("constraint",
                                 "-- TODO: CREATE UNIQUE CONSTRAINT {} (no column information)",
                                 <<item.name>>)
                      \/ HasLine("constraint",
                                 "-- TODO: CREATE UNIQUE CONSTRAINT {} (invalid name format)",
                                 <<item.name>>)
           /\ \A item \in ResultItems("tables", "MISSING_IN_TARGET") :
                  LET indexes == DictGet(item.details, "indexes", <<>>)
                  IN  \A k \in DOMAIN indexes :
                          (~indexes[k].is_primary_key /\ indexes[k].columns = <<>>) =>
                              HasLine("constraint",
                                      "-- TODO: CREATE INDEX {} on {} (no column information)",
                                      <<indexes[k].name, item.name>>)

\* C17: generate() never raises on an object that lacks structure; a new
\* table without column metadata, a changed table whose name does not have
\* exactly one separator, and a constraint or index with a malformed name or
\* no columns each get a placeholder line, and the other objects'
\* statements are still written.
C17_NeverRaisesOnGaps ==
    /\ pc # "gen_raised"
    /\ GapsGetPlaceholders

\* C18: when the misc phase runs, every synonym reported MISSING_IN_TARGET
\* gets CREATE SYNONYM <name> FOR <base object> when its record holds a base
\* object, and a line that names it when it holds none.
C18_SynonymCreatedOrNoted ==
    (pc = "gen_done" /\ Asked("include_misc_phase")) =>
        \A item \in ResultItems("synonyms", "MISSING_IN_TARGET") :
            LET base == DictGet(item.details, "base_object_name", <<>>)
            IN  IF base # <<>>
                THEN HasLine("misc", "CREATE SYNONYM {} FOR {};", <<item.name, base>>)
                ELSE HasLineNaming("misc", item.name)

\* C19: when the rollback section is asked for, its header comes after
\* every line of the forward script, and after the header the section holds
\* its own transaction begin and, later, its own commit, whether or not the
\* forward script is wrapped.
C19_RollbackAfterForward ==
    (pc = "gen_done" /\ Asked("include_rollback_section")) =>
        \E h \in At(RollbackHeader) :
            /\ \A i \in DOMAIN line_phase : i < h /\ script[i] = lines[i]
            /\ \E b \in At(BeginMarker) : \E c \in At(CommitMarker) : h < b /\ b < c

\* The forward script is not wrapped and has phase content; the rollback
\* section follows it with both markers.
C19_Witness ==
    /\ pc = "gen_done"
    /\ ~Asked("wrap_in_transaction")
    /\ PhaseContent # {}
    /\ \E h \in At(RollbackHeader) :
           /\ \A i \in DOMAIN line_phase : i < h
           /\ \E b \in At(BeginMarker) : \E c \in At(CommitMarker) : h < b /\ b < c

PhaseLabel == <<"drop", "table", "constraint", "programmability", "misc">>

\* The positions of the lines phase k added.
LinesOfPhase(k) == {i \in DOMAIN line_phase : line_phase[i] = PhaseLabel[k]}

\* C20: the lines of phase j all precede the lines of phase k when j < k,
\* whatever phases are enabled; the header of phase k is among the lines of
\* phase k; and with wrapping all phase lines lie between the transaction
\* begin and the commit.
C20_PhasesInOrder ==
    pc = "gen_done" =>
        /\ \A j \in 1 .. 5 : \A k \in 1 .. 5 :
               j < k => \A a \in LinesOfPhase(j) : \A b \in LinesOfPhase(k) : a < b
        /\ \A k \in 1 .. 5 :
               /\ At(PhaseHeader[k]) \subseteq LinesOfPhase(k)
               /\ Asked(PhaseOption[k]) <=> LinesOfPhase(k) # {}
        /\ Asked("wrap_in_transaction") =>
               \E b \in At(BeginMarker) : \E c \in At(CommitMarker) :
                   /\ c \in DOMAIN line_phase
                   /\ \A i \in PhaseContent : b < i /\ i < c

\* The drop phase is off: the other four phases each wrote lines, in order,
\* inside the transaction.
C20_Witness ==
    /\ pc = "gen_done"
    /\ deploy_options_in = [include_drop_phase |-> FALSE]
    /\ LinesOfPhase(1) = {}
    /\ \A k \in 2 .. 5 : LinesOfPhase(k) # {}
    /\ \A k \in 2 .. 4 : \A a \in LinesOfPhase(k) : \A b \in LinesOfPhase(k + 1) : a < b
    /\ \E b \in At(BeginMarker) : \A i \in PhaseContent : b < i

\* The column delta of a DIFFERENT table, as the table phase computes it.
ColumnDelta(item) ==
    CompareColumns(OrDict(DictGet(item.details, "source", NoneVal)),
                   OrDict(DictGet(item.details, "target", NoneVal)))

\* The DIFFERENT tables whose name is schema.table; any other name gets the
\* placeholder of C17 and no statement.
AlterableTables ==
    {item \in ResultItems("tables", "DIFFERENT") : SplitCount(item.name) = 2}

\* The table phase wrote this line at place i.
TableLine(i, fmt, vals) ==
    /\ i \in DOMAIN line_phase
    /\ line_phase[i] = "table"
    /\ script[i] = Text(fmt, vals)

\* The identity flag or the computed flag of the two records differs (a flag
\* that is not given counts as False).
FlagsDiffer(s, t) ==
    \/ ~PyEq(DictGet(s, "is_identity", PyBool(FALSE)), DictGet(t, "is_identity", PyBool(FALSE)))
    \/ ~PyEq(DictGet(s, "is_computed", PyBool(FALSE)), DictGet(t, "is_computed", PyBool(FALSE)))

\* The warning, then DROP COLUMN, then ADD of the source definition.
ReplacesColumn(tn, s) ==
    \E i \in DOMAIN line_phase :
        /\ TableLine(i, "-- WARNING: Cannot ALTER identity/computed column [{}]. Using DROP + ADD pattern.",
                     <<s.name>>)
        /\ TableLine(i + 2, "ALTER TABLE {} DROP COLUMN [{}];", <<tn, s.name>>)
        /\ TableLine(i + 3, "ALTER TABLE {} ADD {};", <<tn, FormatFullColumnDefinition(s)>>)

\* The places of the ALTER COLUMN statements for column n of table tn.
AlterColumnAt(tn, n) ==
    {i \in DOMAIN line_phase :
        /\ line_phase[i] = "table"
        /\ script[i].fmt = "ALTER TABLE {} ALTER COLUMN [{}] {}{} {};"
        /\ script[i].vals[1] = tn
        /\ script[i].vals[2] = n}

\* The places of the DROP COLUMN statements for column n of table tn.
DropColumnAt(tn, n) ==
    {i \in DOMAIN line_phase : TableLine(i, "ALTER TABLE {} DROP COLUMN [{}];", <<tn, n>>)}

\* The advisory comment, then one ALTER COLUMN with the source column's type
\* and nullability.
AltersColumn(tn, s) ==
    \E i \in AlterColumnAt(tn, s.name) :
        /\ TableLine(i - 1, "-- NOTE: Changing definition of column [{}] on {}. Review for potential data impact.",
                     <<s.name, tn>>)
        /\ script[i].vals[3] = FormatColumnType(s)
        /\ script[i].vals[5] = (IF IsNullable(s) THEN Lit("NULL") ELSE Lit("NOT NULL"))

\* C22: when the table phase runs, for every DIFFERENT table named
\* schema.table: a changed column gets the warning, DROP COLUMN and ADD of
\* the source definition, and no ALTER COLUMN, exactly when the identity
\* flag or the computed flag differs between the two sides, and otherwise a
\* single ALTER COLUMN with the source column's type and nullability after
\* the advisory comment, and no DROP COLUMN; an added column gets ADD of its
\* definition; a removed column gets DROP COLUMN right after the data-loss
\* warning.
C22_ColumnChangesScripted ==
    (pc = "gen_done" /\ Asked("include_table_phase")) =>
        \A item \in AlterableTables :
            LET delta == ColumnDelta(item)
                tn == item.name
            IN  /\ \A k \in DOMAIN delta.changed :
                       LET s == delta.changed[k][1]
                           t == delta.changed[k][2]
                       IN  IF FlagsDiffer(s, t)
                           THEN /\ ReplacesColumn(tn, s)
                                /\ AlterColumnAt(tn, s.name) = {}
                           ELSE /\ AltersColumn(tn, s)
                                /\ Cardinality(AlterColumnAt(tn, s.name)) = 1
                                /\ DropColumnAt(tn, s.name) = {}
                /\ \A k \in DOMAIN delta.added :
                       \E i \in DOMAIN line_phase :
                           TableLine(i, "ALTER TABLE {} ADD {};",
                                     <<tn, FormatFullColumnDefinition(delta.added[k])>>)
                /\ \A k \in DOMAIN delta.removed :
                       \E i \in DropColumnAt(tn, delta.removed[k].name) :
                           TableLine(i - 1, "-- WARNING: Dropping column [{}] from {} may cause data loss.",
                                     <<delta.removed[k].name, tn>>)

\* A table one column of which became a computed column and another column
\* of which is gone from the source: the first is dropped and added again,
\* the second is dropped after its warning.
C22_Witness ==
    /\ pc = "gen_done"
    /\ \E item \in AlterableTables :
           LET delta == ColumnDelta(item)
           IN  /\ Len(delta.changed) = 1
               /\ Len(delta.removed) = 1
               /\ PyEq(DictGet(delta.changed[1][1], "is_identity", PyBool(FALSE)),
                       DictGet(delta.changed[1][2], "is_identity", PyBool(FALSE)))
               /\ FlagsDiffer(delta.changed[1][1], delta.changed[1][2])
               /\ ReplacesColumn(item.name, delta.changed[1][1])
               /\ DropColumnAt(item.name, delta.removed[1].name) # {}

\* C23: when the constraint phase runs, every unique, check or default
\* constraint reported MISSING_IN_TARGET whose record (details itself) holds
\* the fields the statement needs and whose name has a separator gets its
\* ALTER TABLE ... ADD CONSTRAINT statement.
C23_ConstraintsAdded ==
    (pc = "gen_done" /\ Asked("include_constraint_phase")) =>
        /\ \A item \in ResultItems("unique_constraints", "MISSING_IN_TARGET") :
               (DictGet(item.details, "columns", <<>>) # <<>> /\ HasDot(item.name)) =>
                   HasLine("constraint", "ALTER TABLE {} ADD CONSTRAINT [{}] UNIQUE ({});",
                           << BeforeLastDot(item.name), AfterLastDot(item.name),
                              ColList(item.details.columns) >>)
        /\ \A item \in ResultItems("check_constraints", "MISSING_IN_TARGET") :
               (DictGet(item.details, "definition", <<>>) # <<>> /\ HasDot(item.name)) =>
                   HasLine("constraint", "ALTER TABLE {} ADD CONSTRAINT [{}] CHECK {};",
                           << BeforeLastDot(item.name), AfterLastDot(item.name),
                              item.details.definition >>)
        /\ \A item \in ResultItems("default_constraints", "MISSING_IN_TARGET") :
               (/\ DictGet(item.details, "column", <<>>) # <<>>
                /\ DictGet(item.details, "definition", <<>>) # <<>>
                /\ HasDot(item.name)) =>
                   HasLine("constraint", "ALTER TABLE {} ADD CONSTRAINT [{}] DEFAULT {} FOR [{}];",
                           << BeforeLastDot(item.name), AfterLastDot(item.name),
                              item.details.definition, item.details.column >>)

\* The texts of the constraint phase's lines, by kind: primary keys, unique,
\* check and default constraints, indexes, foreign keys (section titles,
\* statements and placeholders).
ConstraintKind ==
    << { "-- Adding/modifying {} primary keys", "PRINT 'Adding primary key {} on {}...';",
         "ALTER TABLE {} ADD CONSTRAINT [{}] PRIMARY KEY ({});",
         "-- TODO: CREATE PRIMARY KEY on {} (no column information)" },
       { "-- Adding {} unique constraints", "ALTER TABLE {} ADD CONSTRAINT [{}] UNIQUE ({});",
         "-- TODO: CREATE UNIQUE CONSTRAINT {} (no column information)",
         "-- TODO: CREATE UNIQUE CONSTRAINT {} (invalid name format)" },
       { "-- Adding {} check constraints", "ALTER TABLE {} ADD CONSTRAINT [{}] CHECK {};",
         "-- TODO: CREATE CHECK CONSTRAINT {} (no definition)",
         "-- TODO: CREATE CHECK CONSTRAINT {} (invalid name format)" },
       { "-- Adding {} default constraints",
         "ALTER TABLE {} ADD CONSTRAINT [{}] DEFAULT {} FOR [{}];",
         "-- TODO: CREATE DEFAULT CONSTRAINT {} (missing information)",
         "-- TODO: CREATE DEFAULT CONSTRAINT {} (invalid name format)" },
       { "-- Creating/modifying {} indexes", "CREATE {}{} INDEX [{}] ON {} ({}){};",
         "-- TODO: CREATE INDEX {} on {} (no column information)" },
       { "-- Adding {} foreign keys", "ALTER TABLE {} ADD CONSTRAINT [{}] ",
         "    FOREIGN KEY ({})", "    REFERENCES {} ({}){}{};",
         "-- TODO: CREATE FOREIGN KEY {} on {} (missing column information)" } >>

\* The places of the constraint phase's lines of kind k.
KindLines(k) ==
    {i \in DOMAIN line_phase :
        line_phase[i] = "constraint" /\ script[i].fmt \in ConstraintKind[k]}

\* The values of the constraint phase's lines with this text.
ConstraintVals(fmt) ==
    {script[i].vals : i \in {j \in DOMAIN line_phase :
                                line_phase[j] = "constraint" /\ script[j].fmt = fmt}}

\* The new and changed tables with the record of their source side.
SourceSides ==
    {<<item.name, SourceRecord(item)>> :
        item \in ResultItems("tables", "MISSING_IN_TARGET") \cup ResultItems("tables", "DIFFERENT")}

\* (table, index) for every index of a source side, and the same for the
\* foreign keys.
SourceIndexes ==
    UNION {{<<p[1], DictGet(p[2], "indexes", <<>>)[k]>> : k \in DOMAIN DictGet(p[2], "indexes", <<>>)}
              : p \in SourceSides}

SourceForeignKeys ==
    UNION {{<<p[1], DictGet(p[2], "foreign_keys", <<>>)[k]>>
               : k \in DOMAIN DictGet(p[2], "foreign_keys", <<>>)} : p \in SourceSides}

\* C24: in the constraint phase the lines of the six kinds come in the order
\* primary keys, unique, check and default constraints, indexes, foreign
\* keys; the primary-key, index and foreign-key statements are those of the
\* source sides of the MISSING_IN_TARGET and DIFFERENT tables and no others;
\* and an index flagged as backing a primary key gets no line.
C24_ConstraintOrderAndSource ==
    (pc = "gen_done" /\ Asked("include_constraint_phase")) =>
        /\ \A j \in 1 .. 6 : \A k \in 1 .. 6 :
               j < k => \A a \in KindLines(j) : \A b \in KindLines(k) : a < b
        /\ ConstraintVals("ALTER TABLE {} ADD CONSTRAINT [{}] PRIMARY KEY ({});")
               = {<<p[1], p[2].primary_key.name, ColList(p[2].primary_key.columns)>> :
                     p \in {q \in SourceSides :
                               /\ Truthy(DictGet(q[2], "primary_key", NoneVal))
                               /\ q[2].primary_key.columns # <<>>}}
        /\ {<<v[3], v[4]>> : v \in ConstraintVals("CREATE {}{} INDEX [{}] ON {} ({}){};")}
               = {<<p[2].name, p[1]>> :
                     p \in {q \in SourceIndexes : ~q[2].is_primary_key /\ q[2].columns # <<>>}}
        /\ ConstraintVals("-- TODO: CREATE INDEX {} on {} (no column information)")
               = {<<p[2].name, p[1]>> :
                     p \in {q \in SourceIndexes : ~q[2].is_primary_key /\ q[2].columns = <<>>}}
        /\ ConstraintVals("ALTER TABLE {} ADD CONSTRAINT [{}] ")
               = {<<p[1], p[2].name>> : p \in {q \in SourceForeignKeys : q[2].columns # <<>>}}

\* A changed table whose source side holds a primary key, the index that
\* backs it, a second index and a foreign key, next to a new unique
\* constraint: the lines of four kinds are there, in order, and the only
\* index statement is that of the second index.
C24_Witness ==
    /\ pc = "gen_done"
    /\ \E item \in ResultItems("tables", "DIFFERENT") :
           /\ \E p \in SourceIndexes : p[1] = item.name /\ p[2].is_primary_key
           /\ Cardinality(ConstraintVals("CREATE {}{} INDEX [{}] ON {} ({}){};")) = 1
    /\ \A k \in {1, 2, 5, 6} : KindLines(k) # {}
    /\ \A a \in KindLines(2) : \A b \in KindLines(5) : a < b
    /\ \A a \in KindLines(5) : \A b \in KindLines(6) : a < b

\* The names of the foreign keys a table record holds.
ForeignKeyNames(rec) ==
    {DictGet(rec, "foreign_keys", <<>>)[k].name : k \in DOMAIN DictGet(rec, "foreign_keys", <<>>)}

\* (table, foreign key) of the DROP CONSTRAINT lines of the drop phase.
DroppedForeignKeys ==
    {script[i].vals : i \in {j \in DOMAIN line_phase :
                                /\ line_phase[j] = "drop"
                                /\ script[j].fmt = "ALTER TABLE {} DROP CONSTRAINT [{}];"}}

\* C25: when the drop phase runs, it writes DROP CONSTRAINT for foreign key
\* f of table t exactly when t is reported DIFFERENT and f names a foreign
\* key of t's target record and none of t's source record; tables with any
\* other status get no such line.
C25_ForeignKeyDrops ==
    (pc = "gen_done" /\ Asked("include_drop_phase")) =>
        DroppedForeignKeys
            = UNION {{<<item.name, f>> :
                         f \in ForeignKeyNames(item.details.target)
                                   \ ForeignKeyNames(item.details.source)}
                        : item \in ResultItems("tables", "DIFFERENT")}

\* A changed table with a foreign key on the target side only loses it,
\* while a table that is only in the target keeps its foreign key until the
\* table itself goes.
C25_Witness ==
    /\ pc = "gen_done"
    /\ Asked("include_drop_phase")
    /\ \E item \in ResultItems("tables", "DIFFERENT") :
           /\ ForeignKeyNames(item.details.source) = {}
           /\ \E f \in ForeignKeyNames(item.details.target) :
                  DroppedForeignKeys = {<<item.name, f>>}
    /\ \E item \in ResultItems("tables", "MISSING_IN_SOURCE") :
           ForeignKeyNames(item.details) # {}

\* The object categories of the drop phase in its order, and the type code
\* and keyword of each in the existence check.
DropOrder == <<"triggers", "views", "procedures", "functions", "synonyms">>

GuardedDrop ==
    << "IF OBJECT_ID('{}', 'TR') IS NOT NULL DROP TRIGGER {};",
       "IF OBJECT_ID('{}', 'V') IS NOT NULL DROP VIEW {};",
       "IF OBJECT_ID('{}', 'P') IS NOT NULL DROP PROCEDURE {};",
       "IF OBJECT_ID('{}', 'FN') IS NOT NULL DROP FUNCTION {};",
       "IF OBJECT_ID('{}', 'SN') IS NOT NULL DROP SYNONYM {};" >>

\* The places of the drop phase's lines with this text.
DropLines(fmt) ==
    {i \in DOMAIN line_phase : line_phase[i] = "drop" /\ script[i].fmt = fmt}

\* The places of the drop phase's statements: every line but the banner,
\* the section titles, GO and the blank lines.
DropPhaseStatements ==
    {i \in DOMAIN line_phase :
        /\ line_phase[i] = "drop"
        /\ script[i] \notin {Banner, Blank, Go, PhaseHeader[1]}
        /\ script[i].fmt \notin {"-- Dropping {} foreign keys"}
                                 \cup {"-- Dropping {} " \o DropOrder[k] : k \in 1 .. 5}}

\* C26: when the drop phase runs, every foreign-key drop precedes every
\* object drop; the object drops of category k are the guarded DROP
\* statements of exactly the items of that category reported
\* MISSING_IN_SOURCE; the categories come in the order triggers, views,
\* procedures, functions, synonyms; and the phase holds no other statement.
C26_ObjectDropsAfterKeys ==
    (pc = "gen_done" /\ Asked("include_drop_phase")) =>
        /\ \A k \in 1 .. 5 :
               /\ \A a \in DropLines("ALTER TABLE {} DROP CONSTRAINT [{}];") :
                      \A b \in DropLines(GuardedDrop[k]) : a < b
               /\ {script[i].vals : i \in DropLines(GuardedDrop[k])}
                      = {<<item.name, item.name>> :
                            item \in ResultItems(DropOrder[k], "MISSING_IN_SOURCE")}
               /\ \A j \in 1 .. 5 :
                      j < k => \A a \in DropLines(GuardedDrop[j]) :
                                   \A b \in DropLines(GuardedDrop[k]) : a < b
        /\ DropPhaseStatements
               = DropLines("ALTER TABLE {} DROP CONSTRAINT [{}];")
                     \cup UNION {DropLines(GuardedDrop[k]) : k \in 1 .. 5}

\* A foreign key and a view are dropped in one script, the key first.
C26_Witness ==
    /\ pc = "gen_done"
    /\ DropLines("ALTER TABLE {} DROP CONSTRAINT [{}];") # {}
    /\ DropLines(GuardedDrop[2]) # {}
    /\ \A a \in DropLines("ALTER TABLE {} DROP CONSTRAINT [{}];") :
           \A b \in DropLines(GuardedDrop[2]) : a < b

\* The places of the lines of the rollback section.
RollbackPlaces == DOMAIN script \ DOMAIN line_phase

\* The values of the table phase's lines on table tn with this text, and
\* of the rollback section's.
ForwardOn(tn, fmt) ==
    {script[i].vals : i \in {j \in DOMAIN line_phase :
                                /\ line_phase[j] = "table"
                                /\ script[j].fmt = fmt
                                /\ script[j].vals[1] = tn}}

RollbackOn(tn, fmt) ==
    {script[i].vals : i \in {j \in RollbackPlaces :
                                script[j].fmt = fmt /\ script[j].vals[1] = tn}}

\* The columns of table tn the forward script added, dropped and altered.
ForwardAdded(tn) == {v[2][1].vals[1] : v \in ForwardOn(tn, "ALTER TABLE {} ADD {};")}

ForwardDropped(tn) == {v[2] : v \in ForwardOn(tn, "ALTER TABLE {} DROP COLUMN [{}];")}

ForwardAltered(tn) ==
    {v[2] : v \in ForwardOn(tn, "ALTER TABLE {} ALTER COLUMN [{}] {}{} {};")}

\* The column named n of the target side of a changed table.
TargetColumn(item, n) ==
    LET cols == DictGet(OrDict(DictGet(item.details, "target", NoneVal)), "columns", <<>>)
    IN  cols[CHOOSE k \in DOMAIN cols : cols[k].name = n]

\* C27: with the rollback section, for every DIFFERENT table and whatever
\* the other options are, the section drops exactly the columns the forward
\* script added to the table, adds again exactly the columns it dropped,
\* and alters exactly the columns it altered, each with the type and
\* nullability of the target side.
C27_RollbackInvertsForward ==
    (pc = "gen_done" /\ Asked("include_rollback_section")) =>
        \A item \in ResultItems("tables", "DIFFERENT") :
            LET tn == item.name
                nullable(c) == IF IsNullable(c) THEN Lit("NULL") ELSE Lit("NOT NULL")
            IN  /\ {v[2] : v \in RollbackOn(tn, "ALTER TABLE {} DROP COLUMN [{}];")}
                       = ForwardAdded(tn)
                /\ {v[2] : v \in RollbackOn(tn, "ALTER TABLE {} ADD [{}] {} {}{};")}
                       = ForwardDropped(tn)
                /\ {v[2] : v \in RollbackOn(tn, "ALTER TABLE {} ALTER COLUMN [{}] {} {};")}
                       = ForwardAltered(tn)
                /\ \A v \in RollbackOn(tn, "ALTER TABLE {} ADD [{}] {} {}{};")
                          \cup RollbackOn(tn, "ALTER TABLE {} ALTER COLUMN [{}] {} {};") :
                       /\ v[3] = FormatColumnType(TargetColumn(item, v[2]))
                       /\ v[4] = nullable(TargetColumn(item, v[2]))

\* The tables the rollback section drops, and the places of those lines.
RollbackDropTableAt ==
    {i \in RollbackPlaces : script[i].fmt = "IF OBJECT_ID('{}', 'U') IS NOT NULL DROP TABLE {};"}

\* The tables for which the forward script holds a CREATE TABLE.
CreatedTables ==
    {script[i].vals[1] : i \in {j \in DOMAIN line_phase :
                                   line_phase[j] = "table" /\ script[j].fmt = "CREATE TABLE {} ("}}

\* The places of the column reversals of the rollback section.
RollbackColumnAt ==
    {i \in RollbackPlaces :
        script[i].fmt \in {"PRINT 'Reverting column changes on {}...';",
                           "ALTER TABLE {} DROP COLUMN [{}];",
                           "ALTER TABLE {} ADD [{}] {} {}{};",
                           "ALTER TABLE {} ALTER COLUMN [{}] {} {};"}}

\* The rollback section's lines between its transaction begin and its
\* commit are column reversals, table drops with their PRINT, GO and blank
\* lines: nothing reverses a constraint, an index or a programmable object.
OnlyTablesAndColumns ==
    \A i \in RollbackPlaces :
        (\E b \in At(BeginMarker) \cap RollbackPlaces : b < i)
        /\ (\E c \in At(CommitMarker) \cap RollbackPlaces : i < c)
            => \/ i \in RollbackColumnAt \cup RollbackDropTableAt
               \/ script[i] \in {Go, Blank}
               \/ script[i].fmt = "PRINT 'Dropping newly-created table {} as part of rollback...';"

Spans == GetOpcodes(dg_source, dg_target)

\* The rows of span n of ops that stand for a line of the left (side = 1)
\* or of the right (side = 2) text: the first a1 - a0 (b1 - b0) rows of the
\* span.  The other rows of the span are those of a one-sided span and the
\* padding of a replace span.
KeptRows(ops, n, side) ==
    LET len == IF side = 1 THEN ops[n].a1 - ops[n].a0 ELSE ops[n].b1 - ops[n].b0
    IN  [k \in 1 .. len |-> RowOffset(ops, n) + k]

\* The places of the kept rows of all spans, in order.
AllKeptRows(ops, side) == ConcatAll([n \in DOMAIN ops |-> KeptRows(ops, n, side)])

\* The entries of one side of the rows at these places.
EntriesAt(rows, side) == [i \in DOMAIN rows |-> output[rows[i]][side]]

\* C29: the left entries of the rows, without the blank left entries of the
\* 'del' rows and of the padding rows of the replace spans, are the lines of
\* the source in order; the right entries, without those of the 'add' rows
\* and of the padding rows, are the lines of the target; the rows left out
\* are blank on that side and tagged 'del' ('add') or 'chg'; and every
\* 'same' row has the same text on both sides.
C29_RowsPreserveInputs ==
    pc = "diffed" =>
        LET ops == Spans
            left == AllKeptRows(ops, 1)
            right == AllKeptRows(ops, 2)
        IN  /\ EntriesAt(left, 1) = dg_source
            /\ EntriesAt(right, 2) = dg_target
            /\ \A i \in DOMAIN output \ Range(left) :
                   output[i][1] = <<>> /\ output[i][3] \in {"del", "chg"}
            /\ \A i \in DOMAIN output \ Range(right) :
                   output[i][2] = <<>> /\ output[i][3] \in {"add", "chg"}
            /\ RowsTagged("del") \cap Range(left) = {}
            /\ RowsTagged("add") \cap Range(right) = {}
            /\ \A i \in RowsTagged("same") : output[i][1] = output[i][2]

\* A replace span that pads the left side and whose source line is itself
\* empty, beside lines the two texts share: the projection keeps the empty
\* source line and leaves out the padding.
C29_Witness ==
    /\ pc = "diffed"
    /\ LET left == AllKeptRows(Spans, 1)
       IN  /\ EntriesAt(left, 1) = dg_source
           /\ \E i \in RowsTagged("chg") : i \notin Range(left)
           /\ \E i \in RowsTagged("chg") : i \in Range(left) /\ output[i][1] = <<>>
    /\ RowsTagged("same") # {}

\* The (category, item) pairs that require scripting, and the pairs the
\* orderer returned.
RequiredPairs ==
    UNION {{<<t, item>> :
               item \in {i \in ResultItems(t, "MISSING_IN_TARGET") \cup ResultItems(t, "DIFFERENT") :
                            i.name # <<>>}} : t \in ProgrammabilityTypes}

ReturnedPair(i) == <<ordered_items[i][1], ordered_items[i][2][1]>>

\* C30: the order the orderer returns holds every function, view, procedure
\* and trigger item with status MISSING_IN_TARGET or DIFFERENT and a
\* non-empty name exactly once, and nothing else.
C30_OrderIsPermutation ==
    pc = "ord_done" =>
        /\ {ReturnedPair(i) : i \in DOMAIN ordered_items} = RequiredPairs
        /\ \A i, j \in DOMAIN ordered_items : ReturnedPair(i) = ReturnedPair(j) => i = j
        /\ \A i \in DOMAIN ordered_items : Len(ordered_items[i][2]) = 1

=============================================================================
